---- MODULE Spec2Model ----
(***************************************************************************)
(* Ingestion and query orchestration of the Vertex AI RAG front ends.      *)
(*                                                                         *)
(* The programs are modelled in parts, each under its own specifications:  *)
(*   SpecBatch   the batched import loops of create_rag_corpus.py and      *)
(*               simple_process.py (SpecBatchFair: the loop keeps going);  *)
(*   SpecBucket  concurrent callers of the create-bucket-if-absent         *)
(*               routines, sharing one storage bucket;                     *)
(*   SpecUpload  the upload and clear handlers of fastapi_vertex_rag.py    *)
(*               and the upload action of streamlit_standalone.py;         *)
(*   SpecQuery   the upload and query handlers of fastapi_vertex_rag.py;   *)
(*   SpecDelete  its upload and delete handlers;                           *)
(*   SpecServe   all four of its handlers together;                        *)
(*   SpecEntry   the start of each program, from the credential check to   *)
(*               its first calls into the cloud SDK;                       *)
(*   SpecModes   the query pages of app.py and query_app.py, and the API   *)
(*               server with one client;                                   *)
(*   SpecRuns    what each program does with the files it is given, the    *)
(*               object keys and the corpus display names it chooses;      *)
(*   SpecRegistry    the API server with one uploading client;             *)
(*   SpecCorpusFile  the routines that create a corpus and save its name   *)
(*                   in corpus_name.txt;                                   *)
(*   SpecMain    the file loop of process_documents.main.                  *)
(* The managed services (storage, RAG engine, generation) are external:    *)
(* each call's outcome is an input chosen with \E.                         *)
(***************************************************************************)
EXTENDS Integers, Sequences, FiniteSets, TLC

None == 0

Min(a, b) == IF a <= b THEN a ELSE b

\* Python's s[lo:hi] on a list (0-based, hi exclusive, clipped to the length).
Slice(s, lo, hi) == SubSeq(s, lo + 1, Min(hi, Len(s)))

\* ceil(n / d) for n >= 0, d > 0.
CeilDiv(n, d) == (n + d - 1) \div d

RECURSIVE Concat(_)
Concat(ss) == IF ss = << >> THEN << >> ELSE Head(ss) \o Concat(Tail(ss))

Range(s) == {s[k] : k \in 1..Len(s)}

(***************************************************************************)
(* State.                                                                  *)
(***************************************************************************)

VARIABLES
    routine,         \* which batched import routine runs
    paths,           \* the locators handed to it, in order
    corpus_file,     \* contents of corpus_name.txt (None: no such file)
    rag_corpus,      \* the corpus handle the routine works on (None: none yet)
    batch_i,         \* the loop variable i of "for i in range(0, len(paths), batch_size)"
    total_imported,  \* create_rag_corpus's counter of imported locators
    calls,           \* the external calls issued so far, in order
    bpc,             \* position of the routine
    ret              \* the value the routine returned to its caller

varsBatch == <<routine, paths, corpus_file, rag_corpus, batch_i, total_imported,
               calls, bpc, ret>>

VARIABLES
    bucket_exists,    \* the bucket exists in the storage service
    created_by,       \* the caller whose create_bucket call created it (None: nobody)
    kind,             \* kind[c]: the routine caller c runs
    cpc,              \* cpc[c]: position of caller c
    result,           \* result[c]: how caller c's routine ended
    issued_create,    \* issued_create[c]: c has called create_bucket
    existed_at_call,  \* existed_at_call[c]: the bucket existed at c's first storage call
    faulted           \* faulted[c]: a storage call of c failed with another error

varsBucket == <<bucket_exists, created_by, kind, cpc, result, issued_create,
                existed_at_call, faulted>>

VARIABLES
    app,                 \* which front end runs: "fastapi" or "streamlit"
    now,                 \* the wall clock, in seconds
    current_corpus,      \* fastapi: the global current_corpus (None, or a corpus name)
    corpus_info,         \* fastapi: the global corpus_info
    documents_store,     \* fastapi: the global documents_store, a list
    loop_owner,          \* fastapi: the coroutine the event loop is running (None: idle)
    up,                  \* fastapi: up[r], the state of upload request r
    qry,                 \* fastapi: the state of the query request
    files_sent,          \* fastapi: number of files received in POST /upload requests
    requests,            \* fastapi: number of query and delete requests received
    clears,              \* fastapi: number of POST /clear requests served
    del_resp,            \* fastapi: the answer to the last DELETE /documents/{id}
    next_uuid,           \* streamlit: number of uuid4 values drawn
    corpora_created,     \* number of corpora the RAG service has created
    create_corpus_calls, \* number of rag.create_corpus calls issued
    import_log,          \* the rag.import_files calls issued: corpus, path, outcome
    blobs,               \* the blob names written to the bucket
    st_corpus,           \* streamlit: rag_manager.corpus (None, or a corpus name)
    st_corpus_created,   \* streamlit: session_state.corpus_created
    st_uploaded_files,   \* streamlit: session_state.uploaded_files, a list
    st_clicks            \* streamlit: number of Upload Documents clicks handled

varsApp == <<app, now, current_corpus, corpus_info, documents_store, loop_owner, up,
             qry, files_sent, requests, clears, del_resp, next_uuid, corpora_created,
             create_corpus_calls, import_log, blobs, st_corpus,
             st_corpus_created, st_uploaded_files, st_clicks>>

VARIABLES
    entry,        \* which program starts
    env_file,     \* GOOGLE_APPLICATION_CREDENTIALS: "unset", or the file is "missing" / "exists"
    secret,       \* st.secrets["gcp_service_account"]: "absent", "placeholder" or "real"
    adc,          \* google.auth.default(): "ok" (credentials and project) or "none"
    project_set,  \* the project id variable of the environment is set
    epc,          \* position of the program
    creds,        \* what the credential check returned
    effects,      \* the calls into the cloud SDK made so far, in order
    ui,           \* the last query of the query page
    ui_queries    \* number of queries the query page has run

varsEntry == <<entry, env_file, secret, adc, project_set, epc, creds, effects, ui,
               ui_queries>>

VARIABLES
    prog,                \* which program makes the runs
    pdf_docx_available,  \* PDF_DOCX_AVAILABLE: PyPDF2 and python-docx were imported
    second,              \* the wall clock, in seconds
    run_pc,              \* position of each run: "corpus", "files", "done"
    seen,                \* the files each run has handled
    file_log,            \* the outcome of every file handled, in order
    corpus_log           \* the corpus creations, in order

varsRun == <<prog, pdf_docx_available, second, run_pc, seen, file_log, corpus_log>>

VARIABLES
    main                 \* one execution of process_documents.main: its locals

vars == <<varsBatch, varsBucket, varsApp, varsEntry, varsRun, main>>

(***************************************************************************)
(* Part 1.  Batched ingestion: create_rag_corpus.create_rag_corpus and     *)
(* simple_process.import_files_to_corpus.                                  *)
(***************************************************************************)

\* Largest number of locators handed to a batched import.
MaxPaths == 57

\* batch_size of create_rag_corpus.create_rag_corpus.
BatchSizeCreate == 25

\* batch_size of simple_process.import_files_to_corpus.
BatchSizeSimple == 5

\* Name of the corpus that exists on the service before the run.
ExistingCorpus == 1

\* Name the service gives the corpus that the run creates.
NewCorpus == 2

\* A corpus name that the service does not know (a stale corpus_name.txt).
StaleCorpus == 3

Routines == {"create_rag_corpus", "simple_process"}


batch_size == IF routine = "create_rag_corpus" THEN BatchSizeCreate ELSE BatchSizeSimple

\* The locators are distinct (file names of one folder): locator k is k.
PathList(n) == [k \in 1..n |-> k]

ImportCall(corpus, batch, ok) ==
    [op |-> "import_files", corpus |-> corpus, batch |-> batch, ok |-> ok]

SleepCall == [op |-> "sleep"]

\* A step of the range that is one too long: a locator is skipped.
NextIndex_skip(i_, bs) == i_ + bs + 1

\* range(0, len(paths), batch_size): the next value of i.
NextIndex(i_, bs) == i_ + bs

\* batch = paths[i:i + batch_size]
Batch(ps, i_, bs) == Slice(ps, i_, i_ + bs)

\* "if i + batch_size < len(paths)": another batch follows.
MoreBatches(ps, i_, bs) == i_ + bs < Len(ps)

InitBatch ==
    /\ routine \in Routines
    /\ paths \in {PathList(n) : n \in 0..MaxPaths}
    /\ corpus_file \in
         IF routine = "create_rag_corpus"
         THEN {None, ExistingCorpus, StaleCorpus} ELSE {None}
    /\ rag_corpus = IF routine = "simple_process" THEN ExistingCorpus ELSE None
    /\ batch_i = 0
    /\ total_imported = 0
    /\ calls = << >>
    /\ bpc = IF routine = "create_rag_corpus" THEN "check_file" ELSE "loop"
    /\ ret = [kind |-> "none"]

\* create_rag_corpus: corpus_name.txt names a corpus that rag.get_corpus finds;
\* the routine returns it at once.
ReuseCorpus ==
    /\ routine = "create_rag_corpus" /\ bpc = "check_file"
    /\ corpus_file = ExistingCorpus
    /\ rag_corpus' = ExistingCorpus
    /\ ret' = [kind |-> "corpus", name |-> ExistingCorpus]
    /\ bpc' = "done"
    /\ UNCHANGED <<routine, paths, corpus_file, batch_i, total_imported, calls>>
    /\ UNCHANGED <<varsBucket, varsApp, varsEntry, varsRun, main>>

\* create_rag_corpus: no corpus file, or rag.get_corpus raised; create a corpus.
\* rag.create_corpus is called outside any try: when it raises the run ends.
CreateCorpus(ok) ==
    /\ routine = "create_rag_corpus" /\ bpc = "check_file"
    /\ corpus_file # ExistingCorpus
    /\ IF ok
       THEN /\ rag_corpus' = NewCorpus
            /\ bpc' = "loop"
            /\ ret' = ret
       ELSE /\ rag_corpus' = rag_corpus
            /\ bpc' = "done"
            /\ ret' = [kind |-> "raised"]
    /\ UNCHANGED <<routine, paths, corpus_file, batch_i, total_imported, calls>>
    /\ UNCHANGED <<varsBucket, varsApp, varsEntry, varsRun, main>>

\* One iteration of create_rag_corpus's loop: the import call, and either the
\* counter update and the sleep before the next batch, or the except clause.
CreateIteration(ok) ==
    /\ routine = "create_rag_corpus" /\ bpc = "loop"
    /\ batch_i < Len(paths)
    /\ LET batch == Batch(paths, batch_i, batch_size)
           call  == ImportCall(rag_corpus, batch, ok)
       IN IF ok
          THEN /\ total_imported' = total_imported + Len(batch)
               /\ calls' = IF MoreBatches(paths, batch_i, batch_size)
                           THEN calls \o <<call, SleepCall>>
                           ELSE Append(calls, call)
          ELSE /\ total_imported' = total_imported
               /\ calls' = Append(calls, call)
    /\ batch_i' = NextIndex(batch_i, batch_size)
    /\ UNCHANGED <<routine, paths, corpus_file, rag_corpus, bpc, ret>>
    /\ UNCHANGED <<varsBucket, varsApp, varsEntry, varsRun, main>>

\* A save that leaves corpus_name.txt as it was.
SavedName_kept(file, corpus) == file

\* with open(CORPUS_FILE, "w") as f: f.write(corpus.name): the contents of
\* corpus_name.txt afterwards.
SavedName(file, corpus) == corpus

\* create_rag_corpus after the loop: write corpus_name.txt, return the corpus.
CreateFinish ==
    /\ routine = "create_rag_corpus" /\ bpc = "loop"
    /\ batch_i >= Len(paths)
    /\ corpus_file' = SavedName(corpus_file, rag_corpus)
    /\ ret' = [kind |-> "corpus", name |-> rag_corpus]
    /\ bpc' = "done"
    /\ UNCHANGED <<routine, paths, rag_corpus, batch_i, total_imported, calls>>
    /\ UNCHANGED <<varsBucket, varsApp, varsEntry, varsRun, main>>

\* One iteration of simple_process's loop: the import call and the pause. The
\* loop is inside the try, so a raising call ends the routine with False.
SimpleIteration(ok) ==
    /\ routine = "simple_process" /\ bpc = "loop"
    /\ batch_i < Len(paths)
    /\ LET batch == Batch(paths, batch_i, batch_size)
           call  == ImportCall(rag_corpus, batch, ok)
       IN IF ok
          THEN /\ calls' = calls \o <<call, SleepCall>>
               /\ batch_i' = NextIndex(batch_i, batch_size)
               /\ bpc' = bpc
               /\ ret' = ret
          ELSE /\ calls' = Append(calls, call)
               /\ batch_i' = batch_i
               /\ bpc' = "done"
               /\ ret' = [kind |-> "bool", value |-> FALSE]
    /\ UNCHANGED <<routine, paths, corpus_file, rag_corpus, total_imported>>
    /\ UNCHANGED <<varsBucket, varsApp, varsEntry, varsRun, main>>

\* simple_process after the loop: return True.
SimpleFinish ==
    /\ routine = "simple_process" /\ bpc = "loop"
    /\ batch_i >= Len(paths)
    /\ ret' = [kind |-> "bool", value |-> TRUE]
    /\ bpc' = "done"
    /\ UNCHANGED <<routine, paths, corpus_file, rag_corpus, batch_i, total_imported, calls>>
    /\ UNCHANGED <<varsBucket, varsApp, varsEntry, varsRun, main>>

\* The create_corpus functions of process_documents.py and simple_process.py.
CreateCorpusRoutines == {"process_documents.create_corpus", "simple_process.create_corpus"}

\* create_corpus of the two scripts: rag.create_corpus, then the name is
\* written to corpus_name.txt, all inside one try whose except clause
\* returns None.  saved is FALSE when the file cannot be opened for writing.
ScriptCreateCorpus(ok, saved) ==
    /\ routine \in CreateCorpusRoutines /\ bpc = "create"
    /\ bpc' = "done"
    /\ rag_corpus' = IF ok THEN NewCorpus ELSE rag_corpus
    /\ IF ok /\ saved
       THEN /\ corpus_file' = SavedName(corpus_file, NewCorpus)
            /\ ret' = [kind |-> "corpus", name |-> NewCorpus]
       ELSE /\ corpus_file' = corpus_file
            /\ ret' = [kind |-> "None"]
    /\ UNCHANGED <<routine, paths, batch_i, total_imported, calls>>
    /\ UNCHANGED <<varsBucket, varsApp, varsEntry, varsRun, main>>

\* The routines that create a corpus and save its name.
NextCorpusFile ==
    \/ ReuseCorpus
    \/ \E ok \in BOOLEAN : CreateCorpus(ok)
    \/ \E ok \in BOOLEAN : CreateIteration(ok)
    \/ CreateFinish
    \/ \E ok \in BOOLEAN, saved \in BOOLEAN : ScriptCreateCorpus(ok, saved)

NextBatch ==
    \/ ReuseCorpus
    \/ \E ok \in BOOLEAN : CreateCorpus(ok)
    \/ \E ok \in BOOLEAN : CreateIteration(ok)
    \/ CreateFinish
    \/ \E ok \in BOOLEAN : SimpleIteration(ok)
    \/ SimpleFinish

(***************************************************************************)
(* Properties of the batched ingestion.                                    *)
(***************************************************************************)

\* The rag.import_files calls issued so far, in order.
ImportCalls == SelectSeq(calls, LAMBDA c : c.op = "import_files")

\* The batches submitted so far, in submission order.
SubmittedBatches == [k \in 1..Len(ImportCalls) |-> ImportCalls[k].batch]

\* The locators of the batches whose import call raised.
FailedLocators ==
    UNION {Range(ImportCalls[k].batch) : k \in {j \in 1..Len(ImportCalls) : ~ImportCalls[j].ok}}

\* create_rag_corpus has run its import loop to the end.
CreateLoopFinished ==
    /\ routine = "create_rag_corpus"
    /\ bpc = "done"
    /\ rag_corpus = NewCorpus
    /\ ret.kind = "corpus"

BatchingInv ==
    routine = "create_rag_corpus" =>
        /\ \A k \in 1..Len(SubmittedBatches) :
               Len(SubmittedBatches[k]) \in 1..BatchSizeCreate
        /\ Concat(SubmittedBatches) = SubSeq(paths, 1, Min(batch_i, Len(paths)))
        /\ CreateLoopFinished =>
               /\ Len(SubmittedBatches) = CeilDiv(Len(paths), BatchSizeCreate)
               /\ Concat(SubmittedBatches) = paths

\* C6: in create_rag_corpus every submitted batch holds 1..25 locators, the
\* batches submitted so far concatenate to a prefix of the input list, a
\* finished loop has submitted exactly ceil(N/25) batches that concatenate to
\* the whole list, and a loop that was entered finishes.
C6_BatchesPartitionInput ==
    /\ []BatchingInv
    /\ (routine = "create_rag_corpus" /\ bpc = "loop") ~> CreateLoopFinished

\* C6 witness: 57 locators went out as batches of 25, 25 and 7.
C6_Witness ==
    /\ CreateLoopFinished
    /\ Len(paths) = 57
    /\ [k \in 1..Len(SubmittedBatches) |-> Len(SubmittedBatches[k])] = <<25, 25, 7>>

\* C7: in both batched routines, once the routine has ended after an import
\* call raised, every batch of the input has still been submitted.
C7_FailureDoesNotAbort ==
    (bpc = "done" /\ \E k \in 1..Len(ImportCalls) : ~ImportCalls[k].ok) =>
        Len(ImportCalls) = CeilDiv(Len(paths), batch_size)

\* C8: a batched routine that has submitted its batches returns an aggregate
\* {total, succeeded, failed} with succeeded + failed = total, succeeded the
\* number of locators of the batches that were imported, and failed the
\* locators of the batches whose import raised.
C8_AggregateResult ==
    (bpc = "done" /\ Len(ImportCalls) > 0) =>
        /\ ret.kind = "aggregate"
        /\ ret.total = Len(paths)
        /\ ret.succeeded + Cardinality(ret.failed) = ret.total
        /\ ret.failed = FailedLocators

\* C9: no two rag.import_files calls of a run are issued back to back: a
\* sleep lies between any two consecutive batch submissions.
C9_DelayBetweenBatches ==
    \A k \in 1..(Len(calls) - 1) :
        ~(calls[k].op = "import_files" /\ calls[k + 1].op = "import_files")

\* A corpus-creating routine has returned a corpus.
ReturnedCorpus == bpc = "done" /\ ret.kind = "corpus"

\* C27: whenever a corpus-creating routine returns a corpus, corpus_name.txt
\* exists and holds the name of that corpus; the file is written in no other
\* step, so a run whose creation fails leaves it as it was.
C27_SavedNameIsReturnedCorpus ==
    /\ [](ReturnedCorpus => (corpus_file # None /\ corpus_file = ret.name))
    /\ [][corpus_file' # corpus_file =>
             (bpc # "done" /\ bpc' = "done" /\ ret'.kind = "corpus"
                /\ corpus_file' = ret'.name)]_vars

\* C27's case: create_corpus of a script has returned a new corpus and
\* corpus_name.txt names it.
C27_Witness ==
    /\ routine \in CreateCorpusRoutines
    /\ ReturnedCorpus
    /\ ret.name = NewCorpus
    /\ corpus_file = NewCorpus

\* C26: in a run of create_rag_corpus.main, when create_rag_corpus returns a
\* corpus, every locator it was given has been submitted in an import batch
\* to that corpus, whether the corpus was created or the one named in
\* corpus_name.txt was reused.
C26_EveryLocatorSubmitted ==
    (routine = "create_rag_corpus" /\ bpc = "done" /\ ret.kind = "corpus"
       /\ paths # << >>) =>
        /\ Concat(SubmittedBatches) = paths
        /\ \A k \in 1..Len(ImportCalls) : ImportCalls[k].corpus = ret.name

(***************************************************************************)
(* Part 2.  Create-bucket-if-absent, called concurrently.                  *)
(*                                                                         *)
(* One storage bucket is shared by callers that run in different threads   *)
(* or processes.  Every storage API call is one atomic step; a routine is  *)
(* its sequence of calls.  A call answers by the bucket's state (found /   *)
(* NotFound, created / Conflict) or fails with another error.              *)
(***************************************************************************)

\* Number of concurrent callers.
NCallers == 2

Callers == 1..NCallers

\* The routines that make sure the bucket exists:
\*   "fastapi"            fastapi_vertex_rag.create_bucket_if_not_exists, as
\*                        called by GET /bucket/create
\*   "upload"             the bucket step of POST /upload
\*   "streamlit"          VertexAIRAGManager.create_bucket_if_not_exists
\*   "create_rag_corpus"  create_rag_corpus.setup_storage_and_upload
\*   "simple_process"     simple_process.setup_storage_bucket
BucketRoutines == {"fastapi", "upload", "streamlit", "create_rag_corpus", "simple_process"}

\* How a storage API call may answer: by the bucket's state, or with an
\* error that is neither NotFound nor Conflict.
StorageResponses == {"state", "error"}


NoResult == [status |-> "running", created |-> FALSE, cause |-> "none"]

\* The routine returned; created is what it reports about having created the bucket.
Returned(created) == [status |-> "returned", created |-> created, cause |-> "none"]

\* The routine ended with an error (raised, or returned its failure value).
Failed(status, cause) == [status |-> status, created |-> FALSE, cause |-> cause]

\* client.get_bucket(name) / bucket.exists(): the answer of the storage service.
GetBucketAnswer(resp, exists) ==
    IF resp = "error" THEN "Error" ELSE IF exists THEN "Found" ELSE "NotFound"

\* client.create_bucket(name): the answer of the storage service.
CreateBucketAnswer(resp, exists) ==
    IF resp = "error" THEN "Error" ELSE IF exists THEN "Conflict" ELSE "Created"

\* check_bucket_exists: True only when get_bucket returned; NotFound and every
\* other exception give False.
check_bucket_exists(resp, exists) == GetBucketAnswer(resp, exists) = "Found"

\* An existence check that is skipped: the routine always goes on to create.
AfterGetBucket_nocheck(k, answer) == [next |-> "create", result |-> NoResult]

\* What a routine does with the answer of its existence check.
AfterGetBucket(k, answer) ==
    CASE k \in {"fastapi", "upload"} ->
           IF answer = "Found"
             THEN [next |-> "done", result |-> Returned(k = "upload")]
           ELSE IF answer = "NotFound"
             THEN [next |-> "create", result |-> NoResult]
           ELSE [next |-> "done", result |-> Failed("raised", "error")]
      [] k = "streamlit" ->
           IF answer = "Found"
             THEN [next |-> "done", result |-> Returned(FALSE)]
           ELSE IF answer = "NotFound"
             THEN [next |-> "create", result |-> NoResult]
           ELSE [next |-> "done", result |-> Failed("returned_failure", "error")]
      [] OTHER ->
           \* the scripts' bare "except:" sends every exception to create_bucket
           IF answer = "Found"
             THEN [next |-> "done", result |-> Returned(FALSE)]
           ELSE [next |-> "create", result |-> NoResult]

\* What a routine does with the answer of its create_bucket call.
AfterCreateBucket(k, answer) ==
    LET cause == IF answer = "Conflict" THEN "conflict" ELSE "error"
    IN CASE k = "fastapi" ->
              IF answer = "Created" THEN Returned(TRUE)
              ELSE IF answer = "Conflict" THEN Returned(FALSE)
              ELSE Failed("raised", cause)
         [] k = "upload" ->
              \* bucket_created = True follows every return of the routine
              IF answer \in {"Created", "Conflict"} THEN Returned(TRUE)
              ELSE Failed("raised", cause)
         [] k = "streamlit" ->
              IF answer = "Created" THEN Returned(TRUE)
              ELSE Failed("returned_failure", cause)
         [] k = "create_rag_corpus" ->
              IF answer = "Created" THEN Returned(TRUE)
              ELSE Failed("raised", cause)
         [] OTHER ->
              IF answer = "Created" THEN Returned(TRUE)
              ELSE Failed("returned_failure", cause)

InitBucket ==
    /\ bucket_exists \in BOOLEAN
    /\ created_by = None
    /\ kind \in [Callers -> BucketRoutines]
    /\ cpc = [c \in Callers |-> IF kind[c] = "upload" THEN "check_exists" ELSE "get"]
    /\ result = [c \in Callers |-> NoResult]
    /\ issued_create = [c \in Callers |-> FALSE]
    /\ existed_at_call = [c \in Callers |-> FALSE]
    /\ faulted = [c \in Callers |-> FALSE]

\* POST /upload: "if not check_bucket_exists(GCS_BUCKET)".
CheckBucketExists(c, resp) ==
    /\ cpc[c] = "check_exists"
    /\ existed_at_call' = [existed_at_call EXCEPT ![c] = bucket_exists]
    /\ IF check_bucket_exists(resp, bucket_exists)
       THEN /\ cpc' = [cpc EXCEPT ![c] = "done"]
            /\ result' = [result EXCEPT ![c] = Returned(FALSE)]
       ELSE /\ cpc' = [cpc EXCEPT ![c] = "get"]
            /\ result' = result
    /\ UNCHANGED <<bucket_exists, created_by, kind, issued_create, faulted>>
    /\ UNCHANGED <<varsBatch, varsApp, varsEntry, varsRun, main>>

\* The existence check of a routine: client.get_bucket or bucket.exists().
GetBucket(c, resp) ==
    /\ cpc[c] = "get"
    /\ LET answer == GetBucketAnswer(resp, bucket_exists)
           after  == AfterGetBucket(kind[c], answer)
       IN /\ cpc' = [cpc EXCEPT ![c] = after.next]
          /\ result' = [result EXCEPT ![c] = after.result]
          /\ faulted' = [faulted EXCEPT ![c] = @ \/ answer = "Error"]
    /\ existed_at_call' =
         IF kind[c] = "upload" THEN existed_at_call
         ELSE [existed_at_call EXCEPT ![c] = bucket_exists]
    /\ UNCHANGED <<bucket_exists, created_by, kind, issued_create>>
    /\ UNCHANGED <<varsBatch, varsApp, varsEntry, varsRun, main>>

\* client.create_bucket, and what the routine makes of its answer.
CreateBucket(c, resp) ==
    /\ cpc[c] = "create"
    /\ LET answer == CreateBucketAnswer(resp, bucket_exists)
       IN /\ bucket_exists' = (bucket_exists \/ answer = "Created")
          /\ created_by' = IF answer = "Created" THEN c ELSE created_by
          /\ result' = [result EXCEPT ![c] = AfterCreateBucket(kind[c], answer)]
          /\ faulted' = [faulted EXCEPT ![c] = @ \/ answer = "Error"]
    /\ issued_create' = [issued_create EXCEPT ![c] = TRUE]
    /\ cpc' = [cpc EXCEPT ![c] = "done"]
    /\ UNCHANGED <<kind, existed_at_call>>
    /\ UNCHANGED <<varsBatch, varsApp, varsEntry, varsRun, main>>

NextBucket ==
    \E c \in Callers, resp \in StorageResponses :
        \/ CheckBucketExists(c, resp)
        \/ GetBucket(c, resp)
        \/ CreateBucket(c, resp)

(***************************************************************************)
(* Properties of the bucket routines.                                      *)
(***************************************************************************)

\* The routines claim C4 names: the server's create_bucket_if_not_exists,
\* its use by POST /upload, and the script's setup_storage_and_upload.
UploadRoutines == {"fastapi", "upload", "create_rag_corpus"}

\* C4: under every interleaving of callers that find the bucket absent, a
\* caller that loses the check-then-create race takes Conflict for success:
\* every finished call that met no storage error other than NotFound and
\* Conflict has returned, none has failed because another caller created
\* the bucket first.
C4_ConflictTolerated ==
    \A c \in Callers :
        (kind[c] \in UploadRoutines /\ cpc[c] = "done" /\ ~faulted[c])
            => result[c].status = "returned"

\* The two versions of create_bucket_if_not_exists (ensure_bucket).
EnsureBucketRoutines == {"fastapi", "streamlit"}

MaxUploads == 2

\* Number of files in all uploads together.
MaxFiles == 2

\* Last instant of the wall clock.
MaxClock == 1

\* Number of POST /query and DELETE /documents/{id} requests together.
MaxRequests == 2

\* Number of POST /clear requests.
MaxClears == 1

\* Number of clicks on Upload Documents in the Streamlit session.
MaxClicks == 2

Uploads == 1..MaxUploads

\* The coroutine of the POST /query request.
QueryCoroutine == MaxUploads + 1

\* Path(filename).suffix.lower() of the file names used.
Suffix == [f \in {"a.txt", "b.exe"} |-> IF f = "a.txt" THEN ".txt" ELSE ".exe"]

\* The extensions POST /upload accepts.
SupportedTypes == {".pdf", ".docx", ".txt", ".md"}

\* The files a client may send: a text file, an empty text file, a program.
Files == {[filename |-> "a.txt", size |-> 1],
          [filename |-> "a.txt", size |-> 0],
          [filename |-> "b.exe", size |-> 1]}

\* Values of top_k and of distance_threshold (in tenths) a client may send.
TopKs == {0, 1, 10, 11}
Thresholds == {5, 11}

NoFile == [filename |-> "", size |-> 0]
NoPath == [ts |-> 0, filename |-> ""]

\* corpus_info = None
NoCorpusInfo == [name |-> None, display_ts |-> 0, document_count |-> 0]

\* f"gs://{GCS_BUCKET}/documents/{timestamp}_{file.filename}"
GcsPath(ts, filename) == [ts |-> ts, filename |-> filename]

\* An upload request before it arrives.
IdleUpload ==
    [pc |-> "idle", file |-> NoFile, n |-> 0, uploaded_files |-> << >>,
     bucket_created |-> FALSE, corpus_updated |-> FALSE, gcs_path |-> NoPath,
     import_result |-> "not_called", status |-> 0]

\* The query request before it arrives.  calls lists the retrieval and
\* generation calls issued for it.
\* at is the place of the request among the query and delete requests.
IdleQuery == [pc |-> "idle", top_k |-> 0, threshold |-> 0, corpus |-> None,
              calls |-> << >>, corpus_used |-> None, status |-> 0, at |-> 0]

\* The entry of a file in the response and in documents_store.  import_result
\* is not a field of the code's entry: it records what import_document_to_corpus
\* returned for the file ("True", "False"), or "not_called".
Entry(id, file, path, corpus_updated, imported) ==
    [id |-> id, filename |-> file.filename, gcs_path |-> path,
     corpus_updated |-> corpus_updated, import_result |-> imported]

\* The corpus check that is always taken: every upload creates a corpus.
NeedsCorpus_always(cc) == TRUE

\* "if not current_corpus:"
NeedsCorpus(cc) == cc = None

stVars == <<st_corpus, st_corpus_created, st_uploaded_files, st_clicks>>
queryVars == <<qry>>
threadVars == <<files_sent, requests, clears>>
deleteVars == <<del_resp>>

\* str(uuid.uuid4()) drawn for file n of upload r: the k-th value of that iteration.
Uuid(r, n, k) == <<r, n, k>>
bucketAux == <<created_by, kind, cpc, result, issued_create, existed_at_call, faulted>>

IdleUploads == [r \in Uploads |-> IdleUpload]

\* raise HTTPException(status_code = code): the request ends, the loop is free.
Reject(r, code) ==
    /\ up' = [up EXCEPT ![r].pc = "done", ![r].status = code]
    /\ loop_owner' = None

\* POST /upload arrives and runs "if not check_bucket_exists(GCS_BUCKET)".
UploadBegin(r, resp) ==
    /\ app = "fastapi" /\ up[r].pc = "idle" /\ loop_owner = None
    /\ loop_owner' = r
    /\ up' = [up EXCEPT ![r].pc = IF check_bucket_exists(resp, bucket_exists)
                                    THEN "corpus" ELSE "cb_get"]
    /\ UNCHANGED <<app, now, current_corpus, corpus_info, documents_store, next_uuid,
                   corpora_created, create_corpus_calls, import_log, blobs>>
    /\ UNCHANGED <<queryVars, threadVars, stVars, deleteVars, bucket_exists, bucketAux, varsBatch, varsEntry, varsRun, main>>

\* create_bucket_if_not_exists, first call: client.get_bucket.
UploadGetBucket(r, resp) ==
    /\ app = "fastapi" /\ up[r].pc = "cb_get"
    /\ LET after == AfterGetBucket("upload", GetBucketAnswer(resp, bucket_exists))
       IN IF after.next = "create"
          THEN /\ up' = [up EXCEPT ![r].pc = "cb_create"]
               /\ loop_owner' = loop_owner
          ELSE IF after.result.status = "returned"
          THEN /\ up' = [up EXCEPT ![r].pc = "corpus",
                                   ![r].bucket_created = after.result.created]
               /\ loop_owner' = loop_owner
          ELSE Reject(r, 500)
    /\ UNCHANGED <<app, now, current_corpus, corpus_info, documents_store, next_uuid,
                   corpora_created, create_corpus_calls, import_log, blobs>>
    /\ UNCHANGED <<queryVars, threadVars, stVars, deleteVars, bucket_exists, bucketAux, varsBatch, varsEntry, varsRun, main>>

\* create_bucket_if_not_exists, second call: client.create_bucket.
UploadCreateBucket(r, resp) ==
    /\ app = "fastapi" /\ up[r].pc = "cb_create"
    /\ LET answer == CreateBucketAnswer(resp, bucket_exists)
           res    == AfterCreateBucket("upload", answer)
       IN /\ bucket_exists' = (bucket_exists \/ answer = "Created")
          /\ IF res.status = "returned"
             THEN /\ up' = [up EXCEPT ![r].pc = "corpus",
                                      ![r].bucket_created = res.created]
                  /\ loop_owner' = loop_owner
             ELSE Reject(r, 500)
    /\ UNCHANGED <<app, now, current_corpus, corpus_info, documents_store, next_uuid,
                   corpora_created, create_corpus_calls, import_log, blobs>>
    /\ UNCHANGED <<queryVars, threadVars, stVars, deleteVars, bucketAux, varsBatch, varsEntry, varsRun, main>>

\* "if not current_corpus: create_or_get_corpus()".  rag.create_corpus either
\* returns a new corpus, which becomes current_corpus, or raises.
UploadEnsureCorpus(r, ok) ==
    /\ app = "fastapi" /\ up[r].pc = "corpus"
    /\ IF ~NeedsCorpus(current_corpus)
       THEN /\ up' = [up EXCEPT ![r].pc = "validate"]
            /\ UNCHANGED <<current_corpus, corpus_info, corpora_created,
                           create_corpus_calls, loop_owner>>
       ELSE /\ create_corpus_calls' = create_corpus_calls + 1
            /\ IF ok
               THEN /\ corpora_created' = corpora_created + 1
                    /\ current_corpus' = corpora_created + 1
                    /\ corpus_info' = [name |-> corpora_created + 1,
                                       display_ts |-> now, document_count |-> 0]
                    /\ up' = [up EXCEPT ![r].pc = "validate"]
                    /\ loop_owner' = loop_owner
               ELSE /\ Reject(r, 500)
                    /\ UNCHANGED <<current_corpus, corpus_info, corpora_created>>
    /\ UNCHANGED <<app, now, documents_store, next_uuid, import_log, blobs>>
    /\ UNCHANGED <<queryVars, threadVars, stVars, deleteVars, bucket_exists, bucketAux, varsBatch, varsEntry, varsRun, main>>

\* import_document_to_corpus: True when rag.import_files returned, False when
\* it raised (the exception is caught and printed).
import_document_to_corpus(ok) == IF ok THEN "True" ELSE "False"

\* "for file in files": the next file, its extension check, and the await of
\* file.read().  The three awaits of an iteration (file.read, file.seek,
\* upload_to_gcs's file.read) have only the size check between them, which
\* reads no shared state: they are one point where the coroutine yields.
UploadNextFile(r, f) ==
    /\ app = "fastapi" /\ up[r].pc = "validate"
    /\ files_sent < MaxFiles
    /\ files_sent' = files_sent + 1
    /\ IF Suffix[f.filename] \notin SupportedTypes
       THEN Reject(r, 400)
       ELSE /\ up' = [up EXCEPT ![r].pc = "await", ![r].file = f, ![r].n = @ + 1]
            /\ loop_owner' = None
    /\ UNCHANGED <<app, now, current_corpus, corpus_info, documents_store, next_uuid,
                   corpora_created, create_corpus_calls, import_log, blobs>>
    /\ UNCHANGED <<queryVars, requests, clears, stVars, deleteVars, bucket_exists, bucketAux, varsBatch, varsEntry, varsRun, main>>

\* The loop is over: return UploadResponse(...).
UploadReturn(r) ==
    /\ app = "fastapi" /\ up[r].pc = "validate"
    /\ up[r].n >= 1
    /\ up' = [up EXCEPT ![r].pc = "done", ![r].status = 200]
    /\ loop_owner' = None
    /\ UNCHANGED <<app, now, current_corpus, corpus_info, documents_store, next_uuid,
                   corpora_created, create_corpus_calls, import_log, blobs>>
    /\ UNCHANGED <<queryVars, threadVars, stVars, deleteVars, bucket_exists, bucketAux, varsBatch, varsEntry, varsRun, main>>

\* The coroutine resumes: the size check, then upload_to_gcs writes the blob.
UploadStore(r, ok) ==
    /\ app = "fastapi" /\ up[r].pc = "await" /\ loop_owner = None
    /\ IF up[r].file.size = 0
       THEN Reject(r, 400) /\ blobs' = blobs
       ELSE IF ~ok
       THEN Reject(r, 500) /\ blobs' = blobs
       ELSE LET path == GcsPath(now, up[r].file.filename)
            IN /\ blobs' = blobs \cup {path}
               /\ up' = [up EXCEPT ![r].pc = "import", ![r].gcs_path = path]
               /\ loop_owner' = r
    /\ UNCHANGED <<app, now, current_corpus, corpus_info, documents_store, next_uuid,
                   corpora_created, create_corpus_calls, import_log>>
    /\ UNCHANGED <<queryVars, threadVars, stVars, deleteVars, bucket_exists, bucketAux, varsBatch, varsEntry, varsRun, main>>

\* The except clause of the import block: the file is added to the response
\* with corpus_updated False, and not to documents_store.
ImportExcept(r) ==
    /\ up' = [up EXCEPT ![r].pc = "validate",
                        ![r].uploaded_files =
                            Append(@, Entry(Uuid(r, up[r].n, 2), up[r].file,
                                            up[r].gcs_path, FALSE,
                                            up[r].import_result))]

\* import_document_to_corpus(current_corpus.name, gcs_path, ...): its result
\* is assigned to import_result and corpus_updated becomes True.  Reading
\* current_corpus.name raises when /clear has set current_corpus to None.
UploadImport(r, ok) ==
    /\ app = "fastapi" /\ up[r].pc = "import"
    /\ IF current_corpus = None
       THEN /\ ImportExcept(r)
            /\ import_log' = import_log
       ELSE /\ import_log' = import_log \cup
                   {[corpus |-> current_corpus, path |-> up[r].gcs_path, ok |-> ok]}
            /\ up' = [up EXCEPT ![r].pc = "record",
                                ![r].import_result = import_document_to_corpus(ok),
                                ![r].corpus_updated = TRUE]
    /\ UNCHANGED <<app, now, current_corpus, corpus_info, documents_store, loop_owner,
                   next_uuid, corpora_created, create_corpus_calls, blobs>>
    /\ UNCHANGED <<queryVars, threadVars, stVars, deleteVars, bucket_exists, bucketAux, varsBatch, varsEntry, varsRun, main>>

\* The value the entries' corpus_updated field gets: import_result is not read.
RecordedStatus(import_result) == TRUE

\* The file is appended to the response and to documents_store.
UploadRecord(r) ==
    /\ app = "fastapi" /\ up[r].pc = "record"
    /\ LET e == Entry(Uuid(r, up[r].n, 1), up[r].file, up[r].gcs_path,
                      RecordedStatus(up[r].import_result), up[r].import_result)
       IN /\ up' = [up EXCEPT ![r].pc = "count",
                              ![r].uploaded_files = Append(@, e)]
          /\ documents_store' = Append(documents_store, e)
    /\ UNCHANGED <<app, now, current_corpus, corpus_info, loop_owner, next_uuid,
                   corpora_created, create_corpus_calls, import_log, blobs>>
    /\ UNCHANGED <<queryVars, threadVars, stVars, deleteVars, bucket_exists, bucketAux, varsBatch, varsEntry, varsRun, main>>

\* "if corpus_info:"
UploadCount(r) ==
    /\ app = "fastapi" /\ up[r].pc = "count"
    /\ up' = [up EXCEPT ![r].pc = IF corpus_info # NoCorpusInfo
                                    THEN "count_inc" ELSE "validate"]
    /\ UNCHANGED <<app, now, current_corpus, corpus_info, documents_store, loop_owner,
                   next_uuid, corpora_created, create_corpus_calls, import_log, blobs>>
    /\ UNCHANGED <<queryVars, threadVars, stVars, deleteVars, bucket_exists, bucketAux, varsBatch, varsEntry, varsRun, main>>

\* corpus_info["document_count"] += 1.  The global is read again: when /clear
\* has set it to None since the test, the subscript raises and the except
\* clause of the import block runs.
UploadCountInc(r) ==
    /\ app = "fastapi" /\ up[r].pc = "count_inc"
    /\ IF corpus_info = NoCorpusInfo
       THEN /\ ImportExcept(r)
            /\ corpus_info' = corpus_info
       ELSE /\ corpus_info' = [corpus_info EXCEPT !.document_count = @ + 1]
            /\ up' = [up EXCEPT ![r].pc = "validate"]
    /\ UNCHANGED <<app, now, current_corpus, documents_store, loop_owner, next_uuid,
                   corpora_created, create_corpus_calls, import_log, blobs>>
    /\ UNCHANGED <<queryVars, threadVars, stVars, deleteVars, bucket_exists, bucketAux, varsBatch, varsEntry, varsRun, main>>

\* POST /clear.
clear_all_documents ==
    /\ app = "fastapi" /\ clears < MaxClears
    /\ documents_store' = << >>
    /\ current_corpus' = None
    /\ corpus_info' = NoCorpusInfo
    /\ clears' = clears + 1
    /\ UNCHANGED <<app, now, loop_owner, up, next_uuid, corpora_created,
                   create_corpus_calls, import_log, blobs, files_sent, requests>>
    /\ UNCHANGED <<queryVars, stVars, deleteVars, bucket_exists, bucketAux, varsBatch, varsEntry, varsRun, main>>

\* The ids a client may name: those of the registered documents, and one
\* that was never given out.
DocIds == {documents_store[k].id : k \in 1..Len(documents_store)} \cup {Uuid(0, 0, 0)}

\* The list without its k-th element: documents_store.pop(k).
Pop(s, k) == SubSeq(s, 1, k - 1) \o SubSeq(s, k + 1, Len(s))

\* No DELETE request was answered.
NoDelete == [n |-> 0, doc_id |-> Uuid(0, 0, 0), status |-> 0]

\* A removal that takes the last entry when no id matches.
Removed_last(store, doc_id) ==
    LET hits == {k \in 1..Len(store) : store[k].id = doc_id}
    IN IF hits = {} THEN Pop(store, Len(store))
       ELSE Pop(store, CHOOSE k \in hits : \A j \in hits : k <= j)

\* The loop of delete_document: the list without its first entry whose id is
\* doc_id; the list itself when no entry has that id.
Removed(store, doc_id) ==
    LET hits == {k \in 1..Len(store) : store[k].id = doc_id}
    IN IF hits = {} THEN store
       ELSE Pop(store, CHOOSE k \in hits : \A j \in hits : k <= j)

\* DELETE /documents/{doc_id}: the first entry with that id is removed; an
\* unknown id is answered 404.
delete_document(doc_id) ==
    /\ app = "fastapi" /\ requests < MaxRequests
    /\ requests' = requests + 1
    /\ documents_store' = Removed(documents_store, doc_id)
    /\ del_resp' = [n |-> del_resp.n + 1, doc_id |-> doc_id,
                    status |-> IF \E d \in Range(documents_store) : d.id = doc_id
                               THEN 200 ELSE 404]
    /\ UNCHANGED <<app, now, current_corpus, corpus_info, loop_owner, up, next_uuid,
                   corpora_created, create_corpus_calls, import_log, blobs, clears,
                   files_sent>>
    /\ UNCHANGED <<queryVars, stVars, bucket_exists, bucketAux, varsBatch, varsEntry, varsRun, main>>

\* The wall clock advances.
Tick ==
    /\ now < MaxClock
    /\ now' = now + 1
    /\ UNCHANGED <<app, current_corpus, corpus_info, documents_store, loop_owner, up,
                   next_uuid, corpora_created, create_corpus_calls, import_log, blobs>>
    /\ UNCHANGED <<queryVars, threadVars, stVars, deleteVars, bucket_exists, bucketAux, varsBatch, varsEntry, varsRun, main>>

\* The validation of the QueryRequest model: "top_k: Optional[int] = 3" and
\* "distance_threshold: Optional[float] = 0.5" accept every number.
ValidQueryRequest(top_k, threshold) == TRUE

\* POST /query ends with an HTTPException or with its response.
QueryEnd(code, used, last_calls) ==
    /\ qry' = [qry EXCEPT !.pc = "done", !.status = code, !.corpus_used = used,
                          !.calls = @ \o last_calls]
    /\ loop_owner' = None

\* A check that looks at the corpus only.
NothingToQuery_corpus_only(cc, store) == cc = None

\* "if not current_corpus: raise ... 400" and "if not documents_store: raise
\* ... 400" at the head of query_documents.
NothingToQuery(cc, store) == cc = None \/ store = << >>

\* POST /query arrives: the request is validated, the two checks run, and
\* perform_rag_query is entered with current_corpus.name.
QueryBegin(top_k, threshold) ==
    /\ app = "fastapi" /\ requests < MaxRequests
    /\ qry.pc \in {"idle", "done"} /\ loop_owner = None
    /\ requests' = requests + 1
    /\ IF ~ValidQueryRequest(top_k, threshold)
       THEN /\ qry' = [IdleQuery EXCEPT !.pc = "done", !.status = 422,
                                        !.top_k = top_k, !.threshold = threshold,
                                        !.at = requests + 1]
            /\ loop_owner' = None
       ELSE IF NothingToQuery(current_corpus, documents_store)
       THEN /\ qry' = [IdleQuery EXCEPT !.pc = "done", !.status = 400,
                                        !.top_k = top_k, !.threshold = threshold,
                                        !.at = requests + 1]
            /\ loop_owner' = None
       ELSE /\ qry' = [IdleQuery EXCEPT !.pc = "retrieval", !.top_k = top_k,
                                        !.threshold = threshold,
                                        !.corpus = current_corpus,
                                        !.at = requests + 1]
            /\ loop_owner' = QueryCoroutine
    /\ UNCHANGED <<app, now, current_corpus, corpus_info, documents_store, up, next_uuid,
                   corpora_created, create_corpus_calls, import_log, blobs>>
    /\ UNCHANGED <<files_sent, clears, stVars, deleteVars, bucket_exists, bucketAux, varsBatch, varsEntry, varsRun, main>>

NetCall(op) == [op |-> op, top_k |-> qry.top_k, threshold |-> qry.threshold]

\* perform_rag_query: rag.retrieval_query.
QueryRetrieve(ok) ==
    /\ app = "fastapi" /\ qry.pc = "retrieval"
    /\ IF ok
       THEN /\ qry' = [qry EXCEPT !.pc = "generate",
                                  !.calls = Append(@, NetCall("retrieval_query"))]
            /\ loop_owner' = loop_owner
       ELSE QueryEnd(500, None, <<NetCall("retrieval_query")>>)
    /\ UNCHANGED <<app, now, current_corpus, corpus_info, documents_store, up, next_uuid,
                   corpora_created, create_corpus_calls, import_log, blobs>>
    /\ UNCHANGED <<threadVars, stVars, deleteVars, bucket_exists, bucketAux, varsBatch, varsEntry, varsRun, main>>

\* perform_rag_query: model.generate_content.
QueryGenerate(ok) ==
    /\ app = "fastapi" /\ qry.pc = "generate"
    /\ IF ok
       THEN /\ qry' = [qry EXCEPT !.pc = "respond",
                                  !.calls = Append(@, NetCall("generate_content"))]
            /\ loop_owner' = loop_owner
       ELSE QueryEnd(500, None, <<NetCall("generate_content")>>)
    /\ UNCHANGED <<app, now, current_corpus, corpus_info, documents_store, up, next_uuid,
                   corpora_created, create_corpus_calls, import_log, blobs>>
    /\ UNCHANGED <<threadVars, stVars, deleteVars, bucket_exists, bucketAux, varsBatch, varsEntry, varsRun, main>>

\* QueryResponse(..., corpus_used = current_corpus.name): the global is read
\* again, and the read raises when /clear has run since the checks.
QueryRespond ==
    /\ app = "fastapi" /\ qry.pc = "respond"
    /\ IF current_corpus = None THEN QueryEnd(500, None, << >>)
       ELSE QueryEnd(200, current_corpus, << >>)
    /\ UNCHANGED <<app, now, current_corpus, corpus_info, documents_store, up, next_uuid,
                   corpora_created, create_corpus_calls, import_log, blobs>>
    /\ UNCHANGED <<threadVars, stVars, deleteVars, bucket_exists, bucketAux, varsBatch, varsEntry, varsRun, main>>

\* f"gs://{bucket_name}/{uuid.uuid4().hex}_{filename}"
StGcsUri(uuid, filename) == [uuid |-> uuid, filename |-> filename]

\* What may happen to one file of a Streamlit upload: the PDF/DOCX library
\* is missing ("skipped"), upload_file_to_gcs fails, import_document_to_corpus
\* fails, or both succeed.
StOutcomes == {"skipped", "upload_failed", "import_failed", "imported"}

\* The file loop of the Upload Documents action, over the outcomes of the
\* files in order; acc holds the uuid counter, the blobs, the import calls and
\* session_state.uploaded_files.
RECURSIVE StProcess(_, _, _)
StProcess(outs, corpus, acc) ==
    IF outs = << >> THEN acc
    ELSE LET o    == Head(outs)
             uri  == StGcsUri(acc.uuid + 1, "a.txt")
             next ==
               IF o = "skipped" THEN acc
               ELSE IF o = "upload_failed" THEN [acc EXCEPT !.uuid = @ + 1]
               ELSE [uuid  |-> acc.uuid + 1,
                     blobs |-> acc.blobs \cup {uri},
                     log   |-> acc.log \cup
                                 {[corpus |-> corpus, path |-> uri, ok |-> o = "imported"]},
                     files |-> IF o = "imported"
                               THEN Append(acc.files, [name |-> "a.txt", gcs_uri |-> uri])
                               ELSE acc.files]
         IN StProcess(Tail(outs), corpus, next)

\* "if not st.session_state.corpus_created:"
StNeedsCorpus == ~st_corpus_created

\* A click on Upload Documents with the files whose outcomes are outs: the
\* corpus is created when the session has none (st.stop() when that fails),
\* then every file is uploaded and imported.
StUpload(create_ok, outs) ==
    /\ app = "streamlit" /\ st_clicks < MaxClicks
    /\ st_clicks' = st_clicks + 1
    /\ LET creating == StNeedsCorpus
           corpus   == IF creating THEN corpora_created + 1 ELSE st_corpus
           uuid0    == IF creating THEN next_uuid + 1 ELSE next_uuid
           acc      == StProcess(outs, corpus,
                                 [uuid |-> uuid0, blobs |-> blobs, log |-> import_log,
                                  files |-> st_uploaded_files])
       IN /\ create_corpus_calls' = create_corpus_calls + (IF creating THEN 1 ELSE 0)
          /\ IF creating /\ ~create_ok
             THEN /\ next_uuid' = uuid0
                  /\ UNCHANGED <<st_corpus, st_corpus_created, st_uploaded_files,
                                 corpora_created, import_log, blobs>>
             ELSE /\ st_corpus' = corpus
                  /\ st_corpus_created' = TRUE
                  /\ corpora_created' = corpora_created + (IF creating THEN 1 ELSE 0)
                  /\ next_uuid' = acc.uuid
                  /\ blobs' = acc.blobs
                  /\ import_log' = acc.log
                  /\ st_uploaded_files' = acc.files
    /\ UNCHANGED <<app, now, current_corpus, corpus_info, documents_store, loop_owner, up>>
    /\ UNCHANGED <<queryVars, threadVars, deleteVars, bucket_exists, bucketAux, varsBatch, varsEntry, varsRun, main>>

\* The outcomes of the files of one Streamlit upload: 1..MaxFiles files.
StFileOutcomes == UNION {[1..n -> StOutcomes] : n \in 1..MaxFiles}

\* The steps of upload request r.
UploadSteps(r) ==
    \/ \E resp \in StorageResponses :
          \/ UploadBegin(r, resp)
          \/ UploadGetBucket(r, resp)
          \/ UploadCreateBucket(r, resp)
    \/ \E ok \in BOOLEAN :
          \/ UploadEnsureCorpus(r, ok)
          \/ UploadStore(r, ok)
          \/ UploadImport(r, ok)
    \/ \E f \in Files : UploadNextFile(r, f)
    \/ UploadReturn(r)
    \/ UploadRecord(r)
    \/ UploadCount(r)
    \/ UploadCountInc(r)

NextUploads == \E r \in Uploads : UploadSteps(r)

NextQueries ==
    \/ \E k \in TopKs, d \in Thresholds : QueryBegin(k, d)
    \/ \E ok \in BOOLEAN : QueryRetrieve(ok) \/ QueryGenerate(ok)
    \/ QueryRespond

NextStreamlit == \E ok \in BOOLEAN, outs \in StFileOutcomes : StUpload(ok, outs)

\* Uploads, in either front end, and POST /clear.
NextUpload == NextUploads \/ clear_all_documents \/ NextStreamlit

\* The API server's uploads and queries.
NextQuery == NextUploads \/ NextQueries

NextDeletes == \E id \in DocIds : delete_document(id)

\* The API server's uploads and deletions.
NextDelete == NextUploads \/ NextDeletes

\* The API server with one uploading client and every other request.
NextRegistry == UploadSteps(1) \/ NextQueries \/ NextDeletes \/ clear_all_documents

\* The API server with all its requests.
NextServe == NextUploads \/ NextQueries \/ NextDeletes \/ clear_all_documents

(***************************************************************************)
(* Part 4.  The entry points: credential resolution, start-up, and the     *)
(* query page of app.py and query_app.py.                                  *)
(*                                                                         *)
(* A program starts in an environment (credentials file variable, secret   *)
(* bundle, ambient default credentials, project id), checks it as its code *)
(* does, and goes on to the cloud SDK.  effects lists the SDK calls in the *)
(* order they are made.                                                    *)
(***************************************************************************)

\* Number of queries run on the query page.
MaxUiQueries == 2

\* The programs: the query pages app.py and query_app.py, the upload page
\* streamlit_standalone.py, the script simple_process.py, and the API server.
Entries == {"app", "query_app", "streamlit_standalone", "simple_process", "fastapi"}

\* The programs that call setup_google_credentials.
Resolvers == {"app", "query_app", "streamlit_standalone"}

\* The programs with a query page offering both query methods.
QueryPages == {"app", "query_app"}

EnvFiles == {"unset", "missing", "exists"}
Secrets == {"absent", "placeholder", "real"}
Adcs == {"none", "ok"}

\* return True, "...": the source the credentials were taken from.
CredsOk(source) == [ok |-> TRUE, source |-> source]

\* return False, "...": the source that made the check fail ("none": no source).
CredsFailed(source) == [ok |-> FALSE, source |-> source]

\* No credential check has run.
NoCreds == [ok |-> FALSE, source |-> "unchecked"]

\* The try block around google.auth.default(): True only with credentials
\* and a project.
DefaultCredentials(a) == IF a = "ok" THEN CredsOk("default") ELSE CredsFailed("none")

\* setup_google_credentials of program e, for credentials file variable f,
\* secret bundle s and default credentials a.
setup_google_credentials(e, f, s, a) ==
    CASE e = "app" ->
           IF f # "unset"
             THEN IF f = "exists" THEN CredsOk("file") ELSE CredsFailed("file")
           ELSE IF s # "absent"
             THEN IF s = "placeholder" THEN CredsFailed("secret") ELSE CredsOk("secret")
           ELSE DefaultCredentials(a)
      [] e = "query_app" ->
           IF f # "unset"
             THEN IF f = "exists" THEN CredsOk("file") ELSE CredsFailed("file")
           ELSE DefaultCredentials(a)
      [] OTHER ->
           \* streamlit_standalone: the bundle is written out as it is
           IF s # "absent" THEN CredsOk("secret") ELSE DefaultCredentials(a)

\* simple_process.check_environment: project id, credentials file variable,
\* credentials file, documents folder.
check_environment(p, f, folder_exists) ==
    IF ~p THEN CredsFailed("project")
    ELSE IF f # "exists" THEN CredsFailed("file")
    ELSE IF ~folder_exists THEN CredsFailed("folder")
    ELSE CredsOk("file")

\* The query of the query page before any was run.
NoUiQuery ==
    [mode |-> "none", calls |-> << >>, ok |-> FALSE, raised |-> "none",
     ret |-> [success |-> FALSE, prefix |-> "", text |-> ""]]

\* What the retrieval or the generation call may raise ("none": it returns).
Raised == {"none", "PermissionDenied", "DeadlineExceeded"}

\* The words in front of the cause in the message of a failed query.
FailurePrefix(mode) ==
    CASE mode = "direct" -> "Direct retrieval failed"
      [] mode = "enhanced" -> "Enhanced generation failed"
      [] OTHER -> "Query failed"

\* A query function that hands the cause text back as its answer.
QueryReturn_swallow(mode, raised) ==
    [success |-> TRUE, prefix |-> "",
     text |-> IF raised = "none" THEN "response" ELSE raised]

\* The pair a query function returns: (True, text of the response) when the
\* call returned, (False, f"... failed: {str(e)}") from the except clause.
QueryReturn(mode, raised) ==
    IF raised = "none"
    THEN [success |-> TRUE, prefix |-> "", text |-> "response"]
    ELSE [success |-> FALSE, prefix |-> FailurePrefix(mode), text |-> raised]

\* return False, "No corpus available. Please upload documents first."
NoCorpusAvailable == [success |-> FALSE, prefix |-> "No corpus available", text |-> ""]

\* A call of the retrieval or the generation endpoint: contents is the user
\* input handed to it.
SdkCall(op, top_k, contents, system_instruction) ==
    [op |-> op, top_k |-> top_k, contents |-> contents,
     system_instruction |-> system_instruction]

\* A direct query that goes on to the generation endpoint.
query_documents_direct_generates(top_k) ==
    <<SdkCall("retrieval_query", top_k, <<"query">>, ""),
      SdkCall("generate_content", top_k, <<"query">>, "")>>

\* query_documents_direct: the SDK calls it makes.
query_documents_direct(top_k) == <<SdkCall("retrieval_query", top_k, <<"query">>, "")>>

\* query_documents_enhanced: the SDK calls it makes.  A system prompt that
\* is not blank becomes the model's system_instruction.
query_documents_enhanced(top_k, system_prompt) ==
    <<SdkCall("generate_content", top_k, <<"query">>, system_prompt)>>

\* The slider of the query page: 1 to 10.
UiTopKs == {1, 10}

\* The system prompts of the query page: none, or a preset.
SystemPrompts == {"", "preset"}

QueryMethods == {"direct", "enhanced"}

InitEntry ==
    /\ entry \in Entries
    /\ env_file \in EnvFiles
    /\ secret \in Secrets
    /\ adc \in Adcs
    /\ project_set \in BOOLEAN
    /\ epc = "start"
    /\ creds = NoCreds
    /\ effects = << >>
    /\ ui = NoUiQuery
    /\ ui_queries = 0

\* creds_success, creds_msg = setup_google_credentials(); st.stop() on failure.
ResolveCredentials ==
    /\ entry \in Resolvers /\ epc = "start"
    /\ LET c == setup_google_credentials(entry, env_file, secret, adc)
       IN /\ creds' = c
          /\ epc' = IF c.ok THEN "init" ELSE "stopped"
    /\ UNCHANGED <<entry, env_file, secret, adc, project_set, effects, ui, ui_queries>>
    /\ UNCHANGED <<varsBatch, varsBucket, varsApp, varsRun, main>>

\* simple_process.main: "if not check_environment(): sys.exit(1)".
CheckEnvironment(folder_exists) ==
    /\ entry = "simple_process" /\ epc = "start"
    /\ LET c == check_environment(project_set, env_file, folder_exists)
       IN /\ creds' = c
          /\ epc' = IF c.ok THEN "init" ELSE "stopped"
    /\ UNCHANGED <<entry, env_file, secret, adc, project_set, effects, ui, ui_queries>>
    /\ UNCHANGED <<varsBatch, varsBucket, varsApp, varsRun, main>>

\* The API server's module body: "if PROJECT_ID: vertexai.init(...)"; no
\* credential check is made.
ModuleInit ==
    /\ entry = "fastapi" /\ epc = "start"
    /\ effects' = IF project_set THEN Append(effects, "vertexai.init") ELSE effects
    /\ epc' = "serving"
    /\ UNCHANGED <<entry, env_file, secret, adc, project_set, creds, ui, ui_queries>>
    /\ UNCHANGED <<varsBatch, varsBucket, varsApp, varsRun, main>>

\* The API server handles POST /upload or GET /status: the first thing
\* either does is check_bucket_exists, a storage call.
ServeRequest ==
    /\ entry = "fastapi" /\ epc = "serving"
    /\ effects' = Append(effects, "get_bucket")
    /\ epc' = "done"
    /\ UNCHANGED <<entry, env_file, secret, adc, project_set, creds, ui, ui_queries>>
    /\ UNCHANGED <<varsBatch, varsBucket, varsApp, varsRun, main>>

\* vertexai.init after the credential check: load_corpus of the query pages,
\* initialize_vertex_ai of simple_process, and the Initialize System button
\* of streamlit_standalone.
VertexInit(ok) ==
    /\ entry \in Resolvers \cup {"simple_process"} /\ epc = "init"
    /\ effects' = Append(effects, "vertexai.init")
    /\ epc' = IF ~ok THEN "stopped"
              ELSE IF entry \in QueryPages THEN "load" ELSE "storage"
    /\ UNCHANGED <<entry, env_file, secret, adc, project_set, creds, ui, ui_queries>>
    /\ UNCHANGED <<varsBatch, varsBucket, varsApp, varsRun, main>>

\* The first storage call after start-up: setup_storage_bucket of
\* simple_process, create_bucket_if_not_exists of streamlit_standalone.
FirstStorageCall ==
    /\ entry \in {"simple_process", "streamlit_standalone"} /\ epc = "storage"
    /\ effects' = Append(effects, "get_bucket")
    /\ epc' = "done"
    /\ UNCHANGED <<entry, env_file, secret, adc, project_set, creds, ui, ui_queries>>
    /\ UNCHANGED <<varsBatch, varsBucket, varsApp, varsRun, main>>

\* load_corpus: rag.get_corpus of the corpus name.  query_app reads the name
\* from corpus_name.txt and stops when the file is missing; app.py has the
\* name in its code.
LoadCorpus(file_exists, ok) ==
    /\ entry \in QueryPages /\ epc = "load"
    /\ LET called == entry = "app" \/ file_exists
       IN /\ effects' = IF called THEN Append(effects, "get_corpus") ELSE effects
          /\ epc' = IF called /\ ok THEN "ready" ELSE "stopped"
    /\ UNCHANGED <<entry, env_file, secret, adc, project_set, creds, ui, ui_queries>>
    /\ UNCHANGED <<varsBatch, varsBucket, varsApp, varsRun, main>>

\* Search Documents on the query page: the selected query method decides
\* which function runs.
UiQuery(mode, top_k, system_prompt, raised) ==
    /\ entry \in QueryPages /\ epc = "ready"
    /\ ui_queries < MaxUiQueries
    /\ ui_queries' = ui_queries + 1
    /\ LET calls_made == IF mode = "direct"
                         THEN query_documents_direct(top_k)
                         ELSE query_documents_enhanced(top_k, system_prompt)
       IN /\ ui' = [mode |-> mode, calls |-> calls_made, ok |-> raised = "none",
                    raised |-> raised, ret |-> QueryReturn(mode, raised)]
          /\ effects' = effects \o [k \in 1..Len(calls_made) |-> calls_made[k].op]
    /\ UNCHANGED <<entry, env_file, secret, adc, project_set, epc, creds>>
    /\ UNCHANGED <<varsBatch, varsBucket, varsApp, varsRun, main>>

\* The upload section of streamlit_standalone creates the session's corpus:
\* "if not st.session_state.corpus_created: create_or_get_corpus()".  When
\* the creation fails the script run ends with st.stop(); the session is
\* followed no further.
ManagerCreateCorpus(ok) ==
    /\ entry = "streamlit_standalone" /\ epc = "done"
    /\ ~st_corpus_created
    /\ effects' = Append(effects, "create_corpus")
    /\ IF ok
       THEN /\ st_corpus' = corpora_created + 1
            /\ corpora_created' = corpora_created + 1
            /\ st_corpus_created' = TRUE
            /\ epc' = epc
       ELSE /\ UNCHANGED <<st_corpus, corpora_created, st_corpus_created>>
            /\ epc' = "stopped"
    /\ UNCHANGED <<entry, env_file, secret, adc, project_set, creds, ui, ui_queries>>
    /\ UNCHANGED <<app, now, current_corpus, corpus_info, documents_store, loop_owner, up,
                   next_uuid, create_corpus_calls, import_log, blobs, st_uploaded_files,
                   st_clicks>>
    /\ UNCHANGED <<queryVars, threadVars, deleteVars, varsBatch, varsBucket, varsRun, main>>

\* VertexAIRAGManager.query_documents: without a corpus it returns at once;
\* with one it makes the generation call.
ManagerQuery(top_k, system_prompt, raised) ==
    /\ entry = "streamlit_standalone" /\ epc = "done"
    /\ ui_queries < MaxUiQueries
    /\ ui_queries' = ui_queries + 1
    /\ IF st_corpus = None
       THEN /\ ui' = [mode |-> "manager", calls |-> << >>, ok |-> FALSE,
                      raised |-> "none", ret |-> NoCorpusAvailable]
            /\ effects' = effects
       ELSE LET calls_made == query_documents_enhanced(top_k, system_prompt)
            IN /\ ui' = [mode |-> "manager", calls |-> calls_made,
                         ok |-> raised = "none", raised |-> raised,
                         ret |-> QueryReturn("manager", raised)]
               /\ effects' = effects \o [k \in 1..Len(calls_made) |-> calls_made[k].op]
    /\ UNCHANGED <<entry, env_file, secret, adc, project_set, epc, creds>>
    /\ UNCHANGED <<varsBatch, varsBucket, varsApp, varsRun, main>>

NextEntry ==
    \/ ResolveCredentials
    \/ \E folder_exists \in BOOLEAN : CheckEnvironment(folder_exists)
    \/ ModuleInit
    \/ ServeRequest
    \/ \E ok \in BOOLEAN : VertexInit(ok)
    \/ FirstStorageCall
    \/ \E file_exists \in BOOLEAN, ok \in BOOLEAN : LoadCorpus(file_exists, ok)
    \/ \E mode \in QueryMethods, top_k \in UiTopKs, sp \in SystemPrompts, raised \in Raised :
          UiQuery(mode, top_k, sp, raised)
    \/ \E ok \in BOOLEAN : ManagerCreateCorpus(ok)
    \/ \E top_k \in UiTopKs, sp \in SystemPrompts, raised \in Raised :
          ManagerQuery(top_k, sp, raised)

\* The programs that answer queries: a query page from its start to its
\* queries, and the API server with one client that uploads and queries.
NextModes ==
    \/ ResolveCredentials
    \/ \E ok \in BOOLEAN : VertexInit(ok)
    \/ \E file_exists \in BOOLEAN, ok \in BOOLEAN : LoadCorpus(file_exists, ok)
    \/ \E mode \in QueryMethods, top_k \in UiTopKs, sp \in SystemPrompts, raised \in Raised :
          UiQuery(mode, top_k, sp, raised)
    \/ UploadSteps(1)
    \/ NextQueries

(***************************************************************************)
(* Properties of the front ends.                                           *)
(***************************************************************************)

\* The entries of the responses of all uploads and of documents_store.
RecordedEntries ==
    Range(documents_store) \cup UNION {Range(up[r].uploaded_files) : r \in Uploads}

\* C1: a document is recorded as indexed only if its storage upload and its
\* rag.import_files call both succeeded: an entry with corpus_updated true,
\* in a response or in documents_store, is of a file that was stored and
\* whose import returned True, and every file of the session's
\* uploaded_files list was stored and imported.
C1_IndexedOnlyAfterImport ==
    /\ \A e \in RecordedEntries :
          e.corpus_updated => (e.gcs_path \in blobs /\ e.import_result = "True")
    /\ \A f \in Range(st_uploaded_files) :
          /\ f.gcs_uri \in blobs
          /\ \E l \in import_log : l.path = f.gcs_uri /\ l.ok

\* C2: a document that was stored but whose import failed stays in the
\* registry, not indexed and with its storage locator.  Stated while no
\* /clear has emptied the registry: every file of a finished upload whose
\* import returned False has an entry in documents_store with corpus_updated
\* false and its gcs_path, and every file of the Streamlit session whose
\* import failed is in the session's uploaded_files list.
C2_FailedImportRetained ==
    /\ clears = 0 =>
          \A r \in Uploads : \A e \in Range(up[r].uploaded_files) :
              (up[r].pc = "done" /\ e.import_result = "False") =>
                  \E d \in Range(documents_store) :
                      d.id = e.id /\ d.gcs_path = e.gcs_path /\ ~d.corpus_updated
    /\ app = "streamlit" =>
          \A l \in import_log :
              ~l.ok => \E f \in Range(st_uploaded_files) : f.gcs_uri = l.path

\* C3 as stated: as long as no /clear intervenes, rag.create_corpus is
\* invoked at most once.
C3_CreateCorpusInvokedOnce == clears = 0 => create_corpus_calls <= 1

\* C3, amended: as long as no /clear intervenes, the check for a current
\* corpus and the creation exclude each other: at most one corpus is
\* created, under every interleaving of uploads, and every import goes into
\* that corpus.  rag.create_corpus is invoked again after a call that raised.
C3_SingleCorpus ==
    clears = 0 =>
        /\ corpora_created <= 1
        /\ \A l \in import_log : l.corpus = 1

\* C3's case: two uploads are in flight together, both past the corpus check
\* and about to import, with one corpus created and no /clear.
C3_Witness ==
    /\ clears = 0 /\ corpora_created = 1
    /\ \E r, q \in Uploads :
          r # q /\ up[r].pc \in {"await", "import"} /\ up[q].pc \in {"await", "import"}

\* The operations of a sequence of SDK calls.
Ops(cs) == [k \in 1..Len(cs) |-> cs[k].op]

\* The number of generate_content calls in a sequence of SDK calls.
GenerateCalls(cs) == Cardinality({k \in 1..Len(cs) : cs[k].op = "generate_content"})

\* The query page keeps to the selected method: a direct query calls
\* rag.retrieval_query and not generate_content, an enhanced query calls
\* generate_content once, with the question as the only user input.
UiKeepsToMethod ==
    /\ ui.mode = "direct" => Ops(ui.calls) = <<"retrieval_query">>
    /\ ui.mode = "enhanced" =>
          /\ Ops(ui.calls) = <<"generate_content">>
          /\ ui.calls[1].contents = <<"query">>

\* C11 as stated, with POST /query taken as an enhanced-generation query (it
\* answers with the generated text): the query pages keep to the selected
\* method, and every query of the API server that got past its checks has
\* called generate_content exactly once.
C11_EnhancedAlwaysGenerates ==
    /\ UiKeepsToMethod
    /\ (qry.pc = "done" /\ qry.status \notin {400, 422}) => GenerateCalls(qry.calls) = 1

\* C11, amended: on the query pages of app.py and query_app.py the selected
\* method decides the endpoint: direct calls rag.retrieval_query only,
\* enhanced calls generate_content exactly once with the question as the only
\* user input.  POST /query of the API server has no method to select: it
\* calls rag.retrieval_query first and generate_content once after it, and
\* does not call generate_content when the retrieval call raised.
C11_MethodDecidesEndpoints ==
    /\ UiKeepsToMethod
    /\ Ops(qry.calls) \in {<< >>, <<"retrieval_query">>,
                           <<"retrieval_query", "generate_content">>}
    /\ (qry.pc = "done" /\ qry.status = 200) =>
          Ops(qry.calls) = <<"retrieval_query", "generate_content">>

\* C11's case: the query page has run a direct query and then an enhanced
\* one, whose only call is the generation call.
C11_Witness ==
    /\ entry \in QueryPages /\ ui_queries = 2
    /\ ui.mode = "enhanced" /\ ui.ok
    /\ "retrieval_query" \in Range(effects)
    /\ GenerateCalls(ui.calls) = 1

\* C21: a query function of the front ends never lets an exception out: when
\* the retrieval or generation call raises it returns (False, message), the
\* message naming the operation that failed and carrying the text of the
\* cause; it returns (True, text) only when the call has returned; and the
\* call is made once, without retry.
C21_QueryErrorsWrapped ==
    ui.mode # "none" =>
        /\ Len(ui.calls) <= 1
        /\ ui.ret.success <=> (Len(ui.calls) = 1 /\ ui.raised = "none")
        /\ ui.raised # "none" =>
              /\ ~ui.ret.success
              /\ ui.ret.text = ui.raised
              /\ ui.mode = "direct" => ui.ret.prefix = "Direct retrieval failed"
              /\ ui.mode = "enhanced" => ui.ret.prefix = "Enhanced generation failed"
              /\ ui.mode = "manager" => ui.ret.prefix = "Query failed"

\* C21's case: the generation call of a session of streamlit_standalone
\* that has a corpus raised, after a query of it had succeeded.
C21_Witness ==
    /\ ui.mode = "manager" /\ ui_queries = 2
    /\ ui.raised = "DeadlineExceeded"
    /\ ui.calls # << >>
    /\ ~ui.ret.success

\* C10: only a query with top_k in 1..10 and distance_threshold in 0.0..1.0
\* (0..10 tenths) reaches rag.retrieval_query or generate_content; any other
\* is rejected before a network call is made.
C10_BoundsCheckedBeforeCalls ==
    \A k \in 1..Len(qry.calls) :
        qry.calls[k].top_k \in 1..10 /\ qry.calls[k].threshold \in 0..10

\* The documents of the registry that corpus c holds: an import of their
\* object into c has succeeded.
Ingested(d, c) ==
    \E l \in import_log : l.corpus = c /\ l.path = d.gcs_path /\ l.ok

\* POST /query answers 200 in this step.
QuerySucceeds == qry.pc = "respond" /\ qry'.pc = "done" /\ qry'.status = 200

\* C12: whatever uploads, queries, deletions and clears came before, the
\* corpus_used of a successful POST /query names the corpus the uploads
\* created, the one that was queried, and every document registered at that
\* moment was ingested into it.
C12_CorpusUsedHoldsTheDocuments ==
    [][QuerySucceeds =>
          /\ qry'.corpus_used = qry.corpus
          /\ qry'.corpus_used \in 1..corpora_created
          /\ \A d \in Range(documents_store) : Ingested(d, qry'.corpus_used)]_vars

\* DELETE /documents/{id} is answered in this step.
DeleteAnswered == del_resp' # del_resp

\* The ids of the registry.
RegisteredIds == {d.id : d \in Range(documents_store)}

\* C13: a DELETE whose id matches no entry is answered 404, and only such a
\* DELETE is; it leaves the registry as it was, entries and order, and the
\* corpus and its info untouched.
C13_UnknownIdNotFound ==
    [][DeleteAnswered =>
          /\ del_resp'.status = 404 <=> del_resp'.doc_id \notin RegisteredIds
          /\ del_resp'.status = 404 =>
                /\ documents_store' = documents_store
                /\ current_corpus' = current_corpus
                /\ corpus_info' = corpus_info]_vars

\* C13's case: a DELETE with an unknown id was answered 404 while the
\* registry held a document of a created corpus.
C13_Witness ==
    /\ del_resp.status = 404
    /\ del_resp.doc_id \notin RegisteredIds
    /\ documents_store # << >>
    /\ current_corpus # None

\* C14: a file of a multi-file upload that fails (unsupported type, empty
\* file, failed write) does not abort its siblings: a request of which a
\* file was processed ends with the response that carries the outcomes, one
\* per file taken from the request, and not with an error for the request.
C14_FailureKeepsSiblings ==
    \A r \in Uploads :
        (up[r].pc = "done" /\ up[r].uploaded_files # << >>) =>
            /\ up[r].status = 200
            /\ Len(up[r].uploaded_files) = up[r].n

\* The first source that validates, in the order credentials file, secret
\* bundle, default credentials; a failure when none does.
FirstValidSource(f, s, a) ==
    IF f = "exists" THEN CredsOk("file")
    ELSE IF s = "real" THEN CredsOk("secret")
    ELSE IF a = "ok" THEN CredsOk("default")
    ELSE CredsFailed("none")

\* C15: the credential resolver of a front end tries the credentials file,
\* then the secret bundle (a placeholder bundle is rejected), then the
\* default credentials, and succeeds with the first that validates; it fails
\* only when none validates, so an earlier source that is present and
\* invalid does not keep a later valid one from being used.
C15_FirstValidSourceWins ==
    (entry \in Resolvers /\ creds # NoCreds) =>
        LET want == FirstValidSource(env_file, secret, adc)
        IN /\ creds.ok = want.ok
           /\ creds.ok => creds.source = want.source

\* C16: no network side effect (vertexai.init, a storage call, a corpus
\* lookup, a query) is made before the credentials were resolved, and none
\* at all when no valid credentials were found.
C16_CredentialsBeforeEffects == effects # << >> => creds.ok

\* The entries of documents_store that request r registered.
RegisteredBy(r) == {k \in 1..Len(documents_store) : documents_store[k].id[1] = r}

\* C23: a POST /upload that is rejected (unsupported type, empty file, failed
\* write of one of its files) leaves the registry as it was before the
\* request: no file of the rejected request stays registered.
C23_RejectedUploadLeavesNoEntry ==
    \A r \in Uploads :
        (up[r].pc = "done" /\ up[r].status \in {400, 500}) => RegisteredBy(r) = {}

\* No upload request is being served.
NoUploadInFlight == \A r \in Uploads : up[r].pc \in {"idle", "done"}

\* C24: after any sequence of upload, delete and clear requests, when a
\* corpus is active corpus_info.document_count is the number of entries of
\* documents_store (which GET /status reports as total_documents).
C24_CountMatchesRegistry ==
    (current_corpus # None /\ NoUploadInFlight) =>
        corpus_info.document_count = Len(documents_store)

\* The storage bucket comes into existence in this step.
BucketIsCreated == ~bucket_exists /\ bucket_exists'

\* C25: the bucket_created of a POST /upload is true exactly when that
\* request created the bucket: it becomes true only in the step in which the
\* request's create_bucket call creates the bucket, and stays false when the
\* bucket existed already or another caller created it first.
C25_BucketCreatedIffCreated ==
    [][app = "fastapi" =>
          \A r \in Uploads :
              (~up[r].bucket_created /\ up'[r].bucket_created) <=>
                  (up[r].pc = "cb_create" /\ up'[r].pc # "cb_create" /\ BucketIsCreated)]_vars

\* POST /query arrives in this step.
QueryArrives == requests' # requests /\ del_resp' = del_resp

\* C28: a POST /query that arrives while there is no active corpus or the
\* registry is empty is answered 400 at once, and a query answered 400 has
\* made no retrieval and no generation call; so a query that comes after the
\* last document was deleted is rejected although the corpus is still active.
C28_NothingToQueryRejected ==
    /\ [](qry.status = 400 => (qry.pc = "done" /\ qry.calls = << >>))
    /\ [][(QueryArrives /\ (current_corpus = None \/ documents_store = << >>)) =>
             (qry'.pc = "done" /\ qry'.status = 400)]_vars

\* C28's case: the only document was deleted by the first request, and the
\* query that came second was rejected with the corpus still active.
C28_Witness ==
    /\ requests = 2 /\ del_resp.status = 200
    /\ qry.at = 2 /\ qry.pc = "done" /\ qry.status = 400
    /\ current_corpus # None /\ documents_store = << >>

\* C29: a document the registry records as indexed was imported into the
\* corpus that is active now; so after POST /clear no upload that was in
\* flight leaves a document recorded as indexed in a corpus that is gone.
C29_IndexedInActiveCorpus ==
    app = "fastapi" =>
        \A k \in 1..Len(documents_store) :
            documents_store[k].corpus_updated =>
                /\ current_corpus # None
                /\ \E i \in import_log : /\ i.corpus = current_corpus
                                         /\ i.path = documents_store[k].gcs_path

(***************************************************************************)
(* Part 5.  The ingestion runs: what a program does with the files it is   *)
(* given (folder scan or upload), the object keys it writes them under,    *)
(* and the display name of the corpus it creates.  A run is one execution  *)
(* of a script, one Streamlit session, or one instance of the API server.  *)
(***************************************************************************)

MaxRuns == 2
MaxScanned == 3
MaxSecond == 1

Programs == {"process_documents", "create_rag_corpus", "simple_process",
             "streamlit_standalone", "fastapi"}

Runs == 1..MaxRuns

Extensions == {".pdf", ".docx", ".txt", ".md", ".doc", ".exe"}

\* The files of the documents folder, or offered by a client.
FolderFiles == [stem : {"a"}, ext : Extensions]

\* The extensions that need text extraction.
Extracted == {".pdf", ".docx"}

\* What a program takes from the folder or from the client: the patterns of
\* get_all_files, the endswith tuples of the two folder scans, the type list
\* of st.file_uploader; the API server takes what it is sent.
Scanned(p) ==
    CASE p = "process_documents" -> {".pdf", ".docx", ".txt", ".md"}
      [] p = "create_rag_corpus" -> {".pdf", ".docx", ".txt", ".md"}
      [] p = "simple_process" -> {".pdf", ".docx", ".doc", ".txt"}
      [] p = "streamlit_standalone" -> {".pdf", ".docx", ".txt"}
      [] OTHER -> Extensions

\* The tag a program puts in front of the file name of an object key:
\* uuid4().hex, the timestamp "%Y%m%d_%H%M%S", or nothing.
KeyTag(p, ts, uuid) ==
    CASE p \in {"process_documents", "streamlit_standalone"} -> <<"uuid", uuid>>
      [] p = "fastapi" -> <<"ts", ts>>
      [] OTHER -> <<"none", 0>>

\* blob_name
ObjectKey(tag, file) == [tag |-> tag, name |-> file]

NoObjectKey == ObjectKey(<<"absent", 0>>, [stem |-> "", ext |-> ""])

\* name.replace('.pdf', '.txt') / name.replace('.docx', '.txt')
TextName(file) == IF file.ext \in Extracted THEN [file EXCEPT !.ext = ".txt"] ELSE file

\* extract_text_from_pdf / extract_text_from_docx: the string returned; the
\* except clause returns the error message as that string.
extract_text(threw) == IF threw THEN "error_message" ELSE "text"

\* The outcome of one file: what was reported for it, whether an object was
\* written, under which key and with what content, and the URI handed to the
\* import (NoObjectKey: none).  threw records that the text extraction ran
\* and raised.
Outcome(r, file, reported, detail, written, key, content, submitted, threw) ==
    [run |-> r, file |-> file, reported |-> reported, detail |-> detail,
     written |-> written, key |-> key, content |-> content,
     submitted |-> submitted, threw |-> threw]

\* The file is not taken up: nothing is written and nothing is reported.
Passed(r, file) ==
    Outcome(r, file, "none", "", FALSE, NoObjectKey, "", NoObjectKey, FALSE)

\* return False, detail / raise / st.error(detail)
Refused(r, file, detail, threw) ==
    Outcome(r, file, "error", detail, FALSE, NoObjectKey, "", NoObjectKey, threw)

\* process_documents.process_file followed by import_to_corpus in main.  The
\* object is written under blob_name; for a PDF or DOCX blob_name is renamed
\* after the write, and the renamed URI goes to the import.
process_file(r, file, tag, lib, threw, write_ok) ==
    IF file.ext \in Extracted
    THEN IF ~lib THEN Refused(r, file, "processing not available", FALSE)
         ELSE IF ~write_ok THEN Refused(r, file, "exception", threw)
         ELSE Outcome(r, file, "ok", "uri", TRUE, ObjectKey(tag, file),
                      extract_text(threw), ObjectKey(tag, TextName(file)), threw)
    ELSE IF file.ext \in {".txt", ".md"}
    THEN IF ~write_ok THEN Refused(r, file, "exception", FALSE)
         ELSE Outcome(r, file, "ok", "uri", TRUE, ObjectKey(tag, file), "raw",
                      ObjectKey(tag, file), FALSE)
    ELSE Refused(r, file, "Unsupported file type", FALSE)

\* The loop body of streamlit_standalone's upload: by MIME type the text is
\* extracted and the name changed before upload_file_to_gcs; any other file
\* is uploaded as it is.
st_process(r, file, tag, lib, threw, write_ok) ==
    IF file.ext \in Extracted /\ ~lib
    THEN Refused(r, file, "processing not available", FALSE)
    ELSE LET t == file.ext \in Extracted /\ threw
             key == ObjectKey(tag, TextName(file))
         IN IF ~write_ok THEN Refused(r, file, "Failed to upload file", t)
            ELSE Outcome(r, file, "ok", "uri", TRUE, key,
                         IF file.ext \in Extracted THEN extract_text(threw) ELSE "raw",
                         key, t)

\* The loop body of the two folder scans (setup_storage_and_upload,
\* upload_files_to_bucket) and of the API server's upload_to_gcs: the bytes
\* of the file are written as they are.
raw_upload(r, file, tag, write_ok) ==
    IF ~write_ok THEN Refused(r, file, "exception", FALSE)
    ELSE Outcome(r, file, "ok", "uri", TRUE, ObjectKey(tag, file), "raw",
                 ObjectKey(tag, file), FALSE)

\* What program p does with one file.
HandleFile(p, r, file, ts, uuid, lib, threw, write_ok) ==
    LET tag == KeyTag(p, ts, uuid)
    IN IF file.ext \notin Scanned(p)
       THEN IF p = "fastapi" THEN Refused(r, file, "Unsupported file type", FALSE)
            ELSE Passed(r, file)
       ELSE CASE p = "process_documents" ->
                   process_file(r, file, tag, lib, threw, write_ok)
              [] p = "streamlit_standalone" ->
                   st_process(r, file, tag, lib, threw, write_ok)
              [] p = "fastapi" ->
                   IF file.ext \in SupportedTypes
                   THEN raw_upload(r, file, tag, write_ok)
                   ELSE Refused(r, file, "Unsupported file type", FALSE)
              [] OTHER -> raw_upload(r, file, tag, write_ok)

\* An error for one file ends the run: the API server raises HTTPException,
\* the two folder scans let the exception of the write leave the loop.
AbortsRun(p, o) ==
    o.reported = "error" /\ p \in {"fastapi", "create_rag_corpus", "simple_process"}

\* The suffix of the corpus display name: a timestamp of one-second
\* resolution, uuid4().hex[:8], or none.
NameSuffix(p, ts, uuid) ==
    CASE p \in {"process_documents", "create_rag_corpus", "fastapi"} -> <<"ts", ts>>
      [] p = "streamlit_standalone" -> <<"uuid", uuid>>
      [] OTHER -> <<"none", 0>>

\* The embedding model given to rag.create_corpus ("unset": no backend_config).
EmbeddingOf(p) ==
    IF p \in {"create_rag_corpus", "streamlit_standalone", "fastapi"}
    THEN "text-embedding-005" ELSE "unset"

\* rag.create_corpus(display_name = ..., backend_config = ...)
Creation(p, r, ts, uuid) ==
    [run |-> r, display_name |-> [base |-> p, suffix |-> NameSuffix(p, ts, uuid)],
     embedding |-> EmbeddingOf(p)]

\* create_rag_corpus.main uploads the folder before it creates the corpus;
\* the other programs create the corpus first.
FirstStep(p) == IF p = "create_rag_corpus" THEN "files" ELSE "corpus"

InitRun ==
    /\ prog \in Programs
    /\ pdf_docx_available \in BOOLEAN
    /\ second = 0
    /\ run_pc = [r \in Runs |-> FirstStep(prog)]
    /\ seen = [r \in Runs |-> {}]
    /\ file_log = << >>
    /\ corpus_log = << >>

\* No run of Part 5 is made.
IdleRun ==
    /\ prog = "fastapi"
    /\ pdf_docx_available = FALSE
    /\ second = MaxSecond
    /\ run_pc = [r \in Runs |-> "done"]
    /\ seen = [r \in Runs |-> {}]
    /\ file_log = << >>
    /\ corpus_log = << >>

\* The wall clock reaches the next second.
TickSecond ==
    /\ second < MaxSecond
    /\ \E r \in Runs : run_pc[r] # "done"
    /\ second' = second + 1
    /\ UNCHANGED <<prog, pdf_docx_available, run_pc, seen, file_log, corpus_log>>
    /\ UNCHANGED <<varsBatch, varsBucket, varsApp, varsEntry, main>>

\* The run creates its corpus.
RunCreateCorpus(r, ok) ==
    /\ run_pc[r] = "corpus"
    /\ corpus_log' = IF ok
                     THEN Append(corpus_log, Creation(prog, r, second, Len(corpus_log) + 1))
                     ELSE corpus_log
    /\ run_pc' = [run_pc EXCEPT ![r] = IF ok /\ FirstStep(prog) = "corpus"
                                        THEN "files" ELSE "done"]
    /\ UNCHANGED <<prog, pdf_docx_available, second, seen, file_log>>
    /\ UNCHANGED <<varsBatch, varsBucket, varsApp, varsEntry, main>>

\* The run handles the next file.
RunFile(r, file, threw, write_ok) ==
    /\ run_pc[r] = "files"
    /\ file \notin seen[r]
    /\ Len(file_log) < MaxScanned
    /\ LET o == HandleFile(prog, r, file, second, Len(file_log) + 1,
                           pdf_docx_available, threw, write_ok)
       IN /\ file_log' = Append(file_log, o)
          /\ run_pc' = [run_pc EXCEPT ![r] = IF AbortsRun(prog, o) THEN "done" ELSE @]
    /\ seen' = [seen EXCEPT ![r] = @ \cup {file}]
    /\ UNCHANGED <<prog, pdf_docx_available, second, corpus_log>>
    /\ UNCHANGED <<varsBatch, varsBucket, varsApp, varsEntry, main>>

\* The loop over the files ends.
RunFilesDone(r) ==
    /\ run_pc[r] = "files"
    /\ run_pc' = [run_pc EXCEPT ![r] = IF FirstStep(prog) = "files" /\ seen[r] # {}
                                        THEN "corpus" ELSE "done"]
    /\ UNCHANGED <<prog, pdf_docx_available, second, seen, file_log, corpus_log>>
    /\ UNCHANGED <<varsBatch, varsBucket, varsApp, varsEntry, main>>

NextRuns ==
    \/ TickSecond
    \/ \E r \in Runs, ok \in BOOLEAN : RunCreateCorpus(r, ok)
    \/ \E r \in Runs, file \in FolderFiles, threw \in BOOLEAN, write_ok \in BOOLEAN :
          RunFile(r, file, threw, write_ok)
    \/ \E r \in Runs : RunFilesDone(r)

(***************************************************************************)
(* Properties of the ingestion runs.                                       *)
(***************************************************************************)

\* The outcomes of the files whose object was written.
Written == {k \in 1..Len(file_log) : file_log[k].written}

\* C17: a PDF or DOCX extraction that throws is reported as a failed
\* extraction, never as a text result, and nothing is written to the bucket
\* or handed to the import for that file.
C17_FailedExtractionNotStored ==
    \A k \in 1..Len(file_log) :
        file_log[k].threw =>
            /\ file_log[k].reported = "error"
            /\ ~file_log[k].written
            /\ file_log[k].submitted = NoObjectKey

\* C18: a file whose extension is none of pdf, docx, txt, md is rejected with
\* an unsupported-type error, and is neither written to storage nor handed to
\* the import, whichever program meets it.
C18_UnsupportedTypeRejected ==
    \A k \in 1..Len(file_log) :
        file_log[k].file.ext \notin SupportedTypes =>
            /\ file_log[k].reported = "error"
            /\ file_log[k].detail = "Unsupported file type"
            /\ ~file_log[k].written
            /\ file_log[k].submitted = NoObjectKey

\* C19: every upload gets an object key of its own, also when the same file
\* name is uploaded in the same second by another session or run.
C19_ObjectKeysUnique ==
    \A j, k \in Written : j # k => file_log[j].key # file_log[k].key

\* C20: every corpus creation gives the display name a uniqueness suffix and
\* fixes the embedding model, so that no two creations share a display name,
\* those of concurrent runs in the same second included.
C20_DisplayNamesUnique ==
    /\ \A k \in 1..Len(corpus_log) :
          /\ corpus_log[k].display_name.suffix[1] # "none"
          /\ corpus_log[k].embedding = "text-embedding-005"
    /\ \A j, k \in 1..Len(corpus_log) :
          j # k => corpus_log[j].display_name # corpus_log[k].display_name

\* C22: whenever process_file returns (True, locator), the locator names the
\* object written in that call, for PDF and DOCX as for TXT and MD, so that
\* import_to_corpus is given an object that exists.
C22_LocatorNamesWrittenBlob ==
    \A k \in 1..Len(file_log) :
        (prog = "process_documents" /\ file_log[k].reported = "ok") =>
            /\ file_log[k].written
            /\ file_log[k].submitted = file_log[k].key

(***************************************************************************)
(* Part 6.  process_documents.main: the loop over the files found, with    *)
(* its two counters.                                                       *)
(***************************************************************************)

MaxListed == 3

\* file_patterns of get_all_files, in the order they are globbed.
FilePatterns == <<".pdf", ".docx", ".txt", ".md">>

\* The documents folders: at most MaxListed files.
Folders == {S \in SUBSET FolderFiles : Cardinality(S) <= MaxListed}

RECURSIVE glob(_, _)
\* glob.glob(os.path.join(DOCUMENTS_FOLDER, pattern)): the files of the
\* folder that end with the pattern's extension, as a list.
glob(folder, ext) ==
    LET hits == {f \in folder : f.ext = ext}
    IN IF hits = {} THEN << >>
       ELSE LET f == CHOOSE g \in hits : TRUE
            IN <<f>> \o glob(folder \ {f}, ext)

\* get_all_files: all_files.extend(files) for each pattern in turn.
get_all_files(folder) ==
    Concat([k \in 1..Len(FilePatterns) |-> glob(folder, FilePatterns[k])])

\* A counter that goes up whatever the import returned.
Counted_always(processed_count, import_success) == processed_count + 1

\* "if import_success: processed_count += 1"
Counted(processed_count, import_success) ==
    IF import_success THEN processed_count + 1 ELSE processed_count

\* Where the for loop goes after file i of n.
AfterFile(i, n) == IF i < n THEN "process_file" ELSE "summary"

\* One call of the loop body, as it was made.
Call(op, file, uri, ok) == [op |-> op, file |-> file, uri |-> uri, ok |-> ok]

\* An entry of failed_files: filename, or f"{filename}: {error}".
FailedFile(file, error) == [filename |-> file, error |-> error]

NoReturn == [kind |-> "none", processed_count |-> 0, total |-> 0]

InitMain ==
    main \in [pc : {"setup"}, folder : Folders, all_files : {<< >>}, i : {0},
              gcs_uri : {NoObjectKey}, processed_count : {0},
              failed_files : {<< >>}, log : {<< >>}, ret : {NoReturn}]

\* main is not run.
IdleMain ==
    main = [pc |-> "done", folder |-> {}, all_files |-> << >>, i |-> 0,
            gcs_uri |-> NoObjectKey, processed_count |-> 0,
            failed_files |-> << >>, log |-> << >>, ret |-> NoReturn]

\* setup_google_cloud, create_bucket, create_corpus, get_all_files: main
\* returns when there is no bucket, no corpus or no file.
MainSetup(bucket_ok, corpus_ok) ==
    /\ main.pc = "setup"
    /\ LET all_files == get_all_files(main.folder)
       IN IF ~bucket_ok \/ ~corpus_ok
          THEN main' = [main EXCEPT !.pc = "done"]
          ELSE IF all_files = << >>
          THEN main' = [main EXCEPT !.pc = "done", !.all_files = all_files]
          ELSE main' = [main EXCEPT !.pc = "process_file", !.all_files = all_files,
                                    !.i = 1]
    /\ UNCHANGED <<varsBatch, varsBucket, varsApp, varsEntry, varsRun>>

\* upload_success, gcs_uri_or_error = process_file(file_path, bucket), and
\* the else branch that appends to failed_files.
MainProcessFile(threw, write_ok) ==
    /\ main.pc = "process_file"
    /\ LET file == main.all_files[main.i]
           o == process_file(1, file, KeyTag("process_documents", 0, main.i),
                             pdf_docx_available, threw, write_ok)
           upload_success == o.reported = "ok"
           log == Append(main.log, Call("process_file", file, o.submitted,
                                        upload_success))
       IN IF upload_success
          THEN main' = [main EXCEPT !.pc = "import_to_corpus", !.log = log,
                                    !.gcs_uri = o.submitted]
          ELSE main' = [main EXCEPT !.pc = AfterFile(main.i, Len(main.all_files)),
                                    !.log = log, !.i = @ + 1,
                                    !.failed_files = Append(@, FailedFile(file, o.detail))]
    /\ UNCHANGED <<varsBatch, varsBucket, varsApp, varsEntry, varsRun>>

\* import_success = import_to_corpus(corpus, gcs_uri_or_error, filename):
\* rag.import_files returns or raises, and main counts the file or appends
\* its name to failed_files.
MainImport(import_success) ==
    /\ main.pc = "import_to_corpus"
    /\ LET file == main.all_files[main.i]
       IN main' = [main EXCEPT
                     !.pc = AfterFile(main.i, Len(main.all_files)),
                     !.i = @ + 1,
                     !.gcs_uri = NoObjectKey,
                     !.log = Append(@, Call("import_to_corpus", file, main.gcs_uri,
                                            import_success)),
                     !.processed_count = Counted(@, import_success),
                     !.failed_files = IF import_success THEN @
                                      ELSE Append(@, FailedFile(file, ""))]
    /\ UNCHANGED <<varsBatch, varsBucket, varsApp, varsEntry, varsRun>>

\* return corpus.name, processed_count, len(all_files)
MainReturn ==
    /\ main.pc = "summary"
    /\ main' = [main EXCEPT !.pc = "done",
                            !.ret = [kind |-> "tuple",
                                     processed_count |-> main.processed_count,
                                     total |-> Len(main.all_files)]]
    /\ UNCHANGED <<varsBatch, varsBucket, varsApp, varsEntry, varsRun>>

NextMain ==
    \/ \E bucket_ok \in BOOLEAN, corpus_ok \in BOOLEAN : MainSetup(bucket_ok, corpus_ok)
    \/ \E threw \in BOOLEAN, write_ok \in BOOLEAN : MainProcessFile(threw, write_ok)
    \/ \E import_success \in BOOLEAN : MainImport(import_success)
    \/ MainReturn

\* The process_file calls made so far, in order.
ProcessCalls == SelectSeq(main.log, LAMBDA c : c.op = "process_file")

\* The places in the log of the imports that succeeded.
ImportedOk ==
    {j \in 1..Len(main.log) : main.log[j].op = "import_to_corpus" /\ main.log[j].ok}

\* C30: process_file is called for the files in list order, one call each;
\* import_to_corpus is called only right after process_file succeeded for the
\* same file, with the URI it returned, and before the next file is taken;
\* when main returns its counts, processed_count + len(failed_files) is the
\* number of files found and processed_count is the number of files whose
\* upload and import both succeeded.
C30_LoopCountsEveryFileOnce ==
    /\ Len(ProcessCalls) <= Len(main.all_files)
    /\ \A k \in 1..Len(ProcessCalls) : ProcessCalls[k].file = main.all_files[k]
    /\ \A j \in 1..Len(main.log) :
          /\ main.log[j].op = "import_to_corpus" =>
                /\ j > 1
                /\ main.log[j - 1].op = "process_file" /\ main.log[j - 1].ok
                /\ main.log[j - 1].file = main.log[j].file
                /\ main.log[j - 1].uri = main.log[j].uri
          /\ (main.log[j].op = "process_file" /\ main.log[j].ok /\ j < Len(main.log)) =>
                main.log[j + 1].op = "import_to_corpus"
    /\ main.ret.kind = "tuple" =>
          /\ Len(ProcessCalls) = Len(main.all_files)
          /\ main.processed_count + Len(main.failed_files) = Len(main.all_files)
          /\ main.processed_count = Cardinality(ImportedOk)
          /\ main.ret.processed_count = main.processed_count
          /\ main.ret.total = Len(main.all_files)

\* C30's case: main returned after three files, of which one was imported,
\* one failed in process_file and one failed in import_to_corpus.
C30_Witness ==
    /\ main.pc = "done" /\ main.ret.kind = "tuple"
    /\ Len(main.all_files) = 3 /\ main.processed_count = 1
    /\ \E a, b \in 1..Len(main.failed_files) :
          main.failed_files[a].error = "" /\ main.failed_files[b].error # ""

(***************************************************************************)
(* Specifications.  Each program runs alone: the variables of the others   *)
(* keep their initial values.                                              *)
(***************************************************************************)

IdleBatch ==
    /\ routine = "simple_process"
    /\ paths = << >>
    /\ corpus_file = None
    /\ rag_corpus = None
    /\ batch_i = 0
    /\ total_imported = 0
    /\ calls = << >>
    /\ bpc = "done"
    /\ ret = [kind |-> "none"]

IdleBucket ==
    /\ created_by = None
    /\ kind = [c \in Callers |-> "fastapi"]
    /\ cpc = [c \in Callers |-> "done"]
    /\ result = [c \in Callers |-> NoResult]
    /\ issued_create = [c \in Callers |-> FALSE]
    /\ existed_at_call = [c \in Callers |-> FALSE]
    /\ faulted = [c \in Callers |-> FALSE]

\* The values every front-end variable has before a request arrives.
FreshApp ==
    /\ current_corpus = None
    /\ corpus_info = NoCorpusInfo
    /\ documents_store = << >>
    /\ loop_owner = None
    /\ qry = IdleQuery
    /\ del_resp = NoDelete
    /\ next_uuid = 0
    /\ corpora_created = 0
    /\ create_corpus_calls = 0
    /\ import_log = {}
    /\ blobs = {}
    /\ st_corpus = None
    /\ st_corpus_created = FALSE
    /\ st_uploaded_files = << >>

InitApp ==
    /\ FreshApp
    /\ app \in {"fastapi", "streamlit"}
    /\ now = 0
    /\ up = IdleUploads
    /\ files_sent = 0
    /\ requests = 0
    /\ clears = 0
    /\ st_clicks = 0

IdleApp ==
    /\ FreshApp
    /\ app = "fastapi"
    /\ now = MaxClock
    /\ up = [r \in Uploads |-> [IdleUpload EXCEPT !.pc = "done"]]
    /\ files_sent = MaxFiles
    /\ requests = MaxRequests
    /\ clears = MaxClears
    /\ st_clicks = MaxClicks

\* No program of Part 4 runs.
IdleEntry ==
    /\ entry = "fastapi"
    /\ env_file = "unset"
    /\ secret = "absent"
    /\ adc = "none"
    /\ project_set = FALSE
    /\ epc = "done"
    /\ creds = NoCreds
    /\ effects = << >>
    /\ ui = NoUiQuery
    /\ ui_queries = MaxUiQueries

InitSpecBatch ==
    InitBatch /\ IdleBucket /\ bucket_exists = FALSE /\ IdleApp /\ IdleEntry /\ IdleRun /\ IdleMain

InitSpecBucket == InitBucket /\ IdleBatch /\ IdleApp /\ IdleEntry /\ IdleRun /\ IdleMain

InitSpecApp ==
    InitApp /\ IdleBatch /\ IdleBucket /\ bucket_exists \in BOOLEAN /\ IdleEntry /\ IdleRun /\ IdleMain

InitSpecApi == InitSpecApp /\ app = "fastapi"

SpecBatch == InitSpecBatch /\ [][NextBatch]_vars

\* A script runs until it returns: the routine takes its next step.
SpecBatchFair == SpecBatch /\ WF_vars(NextBatch)

SpecBucket == InitSpecBucket /\ [][NextBucket]_vars

SpecUpload == InitSpecApp /\ [][NextUpload]_vars

SpecQuery == InitSpecApi /\ [][NextQuery]_vars

SpecDelete == InitSpecApi /\ [][NextDelete]_vars

SpecRegistry == InitSpecApi /\ [][NextRegistry]_vars

SpecServe == InitSpecApi /\ [][NextServe]_vars

InitSpecEntry ==
    InitEntry /\ IdleBatch /\ IdleBucket /\ bucket_exists = FALSE /\ IdleApp /\ IdleRun /\ IdleMain

SpecEntry == InitSpecEntry /\ [][NextEntry]_vars

\* Either a query page runs, or the API server.
InitSpecModes ==
    /\ IdleBatch /\ IdleBucket /\ IdleRun /\ IdleMain
    /\ \/ InitEntry /\ entry \in QueryPages /\ IdleApp /\ bucket_exists = FALSE
       \/ IdleEntry /\ InitApp /\ app = "fastapi" /\ bucket_exists \in BOOLEAN

SpecModes == InitSpecModes /\ [][NextModes]_vars

InitSpecRuns ==
    InitRun /\ IdleBatch /\ IdleBucket /\ bucket_exists = FALSE /\ IdleApp /\ IdleEntry
    /\ IdleMain

SpecRuns == InitSpecRuns /\ [][NextRuns]_vars

\* A corpus-creating routine starts; corpus_name.txt is absent, or names a
\* corpus that exists, or one that does not.
InitCorpusFile ==
    /\ routine \in {"create_rag_corpus"} \cup CreateCorpusRoutines
    /\ paths \in IF routine = "create_rag_corpus"
                 THEN {PathList(n) : n \in 1..MaxPaths} ELSE {<< >>}
    /\ corpus_file \in {None, ExistingCorpus, StaleCorpus}
    /\ rag_corpus = None
    /\ batch_i = 0
    /\ total_imported = 0
    /\ calls = << >>
    /\ bpc = IF routine = "create_rag_corpus" THEN "check_file" ELSE "create"
    /\ ret = [kind |-> "none"]

InitSpecCorpusFile ==
    /\ InitCorpusFile
    /\ IdleBucket /\ bucket_exists = FALSE /\ IdleApp /\ IdleEntry /\ IdleRun /\ IdleMain

SpecCorpusFile == InitSpecCorpusFile /\ [][NextCorpusFile]_vars

\* process_documents.main runs once, with or without the PDF and DOCX
\* libraries.
InitSpecMain ==
    /\ InitMain
    /\ prog = "process_documents" /\ pdf_docx_available \in BOOLEAN
    /\ second = MaxSecond
    /\ run_pc = [r \in Runs |-> "done"]
    /\ seen = [r \in Runs |-> {}]
    /\ file_log = << >>
    /\ corpus_log = << >>
    /\ IdleBatch /\ IdleBucket /\ bucket_exists = FALSE /\ IdleApp /\ IdleEntry

SpecMain == InitSpecMain /\ [][NextMain]_vars

====
